---- MODULE Spec2Model ----
(***************************************************************************)
(* AWSweepByTag: the deletion orchestrator.                                *)
(*                                                                         *)
(*   - order_resources_for_deletion (get_and_order.py, and the older copy   *)
(*     in main.py): the static priority table that sequences a flat list    *)
(*     of resource descriptors;                                             *)
(*   - delete_resource (main_delete.py): the dispatch of one descriptor     *)
(*     through DELETE_FUNCTIONS, with the classification of provider        *)
(*     errors;                                                              *)
(*   - main (main.py) and retry_failed_deletions (main_delete.py): the main *)
(*     pass and the bounded retry rounds.                                   *)
(*                                                                         *)
(* A resource descriptor is a record.  Python's optional keys "arn" and     *)
(* "resource_id" are the field idkey (which of the two keys the dictionary  *)
(* holds) and the field id (its value).                                     *)
(***************************************************************************)
EXTENDS Naturals, Sequences, FiniteSets, TLC

VARIABLES
    pc,                  \* position of the program
    resources,           \* the flat list handed to order_resources_for_deletion
    ordered_resources,   \* the list it returned
    prompt,              \* main: the answer to "prompted before deleting each resource?"
    idx,                 \* main: position of the main pass in ordered_resources
    failed_deletions,    \* main: what the main pass's dispatches returned
    cloudfront_resources, \* retry_failed_deletions: distributions still to wait on
    other_resources,     \* retry_failed_deletions: the retry set of the round
    new_failed_resources, \* retry_failed_deletions: what the round's dispatches returned
    attempt,             \* retry_failed_deletions: the round, 1..max_retries
    ridx,                \* retry_failed_deletions: position of the round in other_resources
    report,              \* the "could not be deleted" list printed after the last round
    slept,               \* retry_failed_deletions: the calls of time.sleep(wait_time)
    dist_status,         \* the provider's state of each distribution, and of each
                         \* launch template or instance that is followed, by identifier
    last,                \* the latest dispatch: descriptor, outcome, what it enqueued
    already_gone,        \* descriptors a dispatch dropped as "not found"
    program,             \* the copy that runs: "main_delete" (the package) or "main_py"
    delete,              \* main: the answer to "Are you sure ...?", lowered;
                         \* "unasked" before the question
    hist                 \* by identifier: how often and with what outcome it was dispatched

ordervars == <<pc, resources, ordered_resources, program, delete>>

planvars == <<resources, ordered_resources, program, delete>>

mainvars == <<prompt, idx, failed_deletions>>

retryvars ==
    <<cloudfront_resources, other_resources, new_failed_resources, attempt,
      ridx, report, slept>>

ghostvars == <<last, already_gone, hist>>

vars == <<ordervars, mainvars, retryvars, dist_status, ghostvars>>

----------------------------------------------------------------------------
(* Bounds of the model *)

\* longest input list of order_resources_for_deletion
MaxLen == 3

\* longest list of discovered resources of a whole run
MaxPlan == 2

\* retry_failed_deletions' argument max_retries
max_retries == 2

\* most VPC attachments of an internet gateway
MaxAttachments == 2

\* most associations in the route tables found for a subnet
MaxAssociations == 2

\* delete_nat_gateway: WaiterConfig 'MaxAttempts'
MaxAttempts == 12

\* create_dynamodb_table_backup: its local max_retries
backup_max_retries == 5

\* most security groups of a VPC
MaxGroups == 2

\* most listeners of a load balancer
MaxListeners == 2

\* most target groups the listeners of a load balancer forward to
MaxTargetGroups == 2

----------------------------------------------------------------------------
(* Resource descriptors *)

Region == "us-east-1"

\* (service, resource_type, key holding the identifier) of the descriptors the
\* discovery produces: parse_resource_by_type lower-cases the 2nd and 3rd part
\* of "AWS::Service::Type" and stores the ARN; get_images stores a resource_id.
Kinds ==
    { <<"s3", "bucket", "arn">>,
      <<"ec2", "launchtemplate", "arn">>,
      <<"applicationautoscaling", "scalabletarget", "arn">>,
      <<"ec2", "ami", "resource_id">>,
      <<"ec2", "snapshot", "resource_id">>,
      <<"autoscaling", "autoscalinggroup", "arn">>,
      <<"elasticloadbalancingv2", "loadbalancer", "arn">>,
      <<"elasticloadbalancingv2", "listener", "arn">>,
      <<"elasticloadbalancingv2", "listenerrule", "arn">>,
      <<"elasticloadbalancingv2", "targetgroup", "arn">>,
      <<"elasticloadbalancingv2", "truststore", "arn">>,
      <<"ec2", "instance", "arn">>,
      <<"ec2", "vpcendpoint", "arn">>,
      <<"ec2", "natgateway", "arn">>,
      <<"ec2", "subnet", "arn">>,
      <<"ec2", "eip", "arn">>,
      <<"ec2", "internetgateway", "arn">>,
      <<"ec2", "routetable", "arn">>,
      <<"ec2", "securitygroup", "arn">>,
      <<"ec2", "transitgatewayattachment", "arn">>,
      <<"ec2", "vpc", "arn">> }

Descriptor(kind, n) ==
    [service |-> kind[1], resource_type |-> kind[2], idkey |-> kind[3],
     id |-> n, region |-> Region]

----------------------------------------------------------------------------
(* Python list and string operations *)

\* r in s
InList(r, s) == \E k \in 1..Len(s) : s[k] = r

\* number of occurrences of r in s
Count(r, s) == Cardinality({k \in 1..Len(s) : s[k] = r})

\* sub in t, for the resource type strings of Kinds
Contains(sub, t) ==
    \/ sub = t
    \/ sub = "listener" /\ t = "listenerrule"

\* a filter that hands its matches back in reverse order
OfTypeReversed(s, t) ==
    LET Test(r) == r.resource_type = t
        m == SelectSeq(s, Test)
    IN  [k \in 1..Len(m) |-> m[Len(m) + 1 - k]]

\* [r for r in s if r["resource_type"] == t]
OfType(s, t) ==
    LET Test(r) == r.resource_type = t IN SelectSeq(s, Test)

\* [r for r in s if sub in r["resource_type"]]
TypeContains(s, sub) ==
    LET Test(r) == Contains(sub, r.resource_type) IN SelectSeq(s, Test)

\* [r for r in s if r["service"] == svc]
OfService(s, svc) ==
    LET Test(r) == r.service = svc IN SelectSeq(s, Test)

----------------------------------------------------------------------------
(* order_resources_for_deletion, get_and_order.py *)

\* resources = [r for r in resources if r.get("service") != "applicationautoscaling"]
without_application_autoscaling(rs) ==
    LET Test(r) == r.service # "applicationautoscaling" IN SelectSeq(rs, Test)

NetworkingTypes ==
    { "eip", "instance", "internetgateway", "natgateway", "routetable",
      "subnet", "securitygroup", "transitgatewayattachment", "vpcendpoint",
      "vpc" }

ordered_networking_resources(rs) ==
    LET Test(r) == r.service = "ec2" /\ r.resource_type \in NetworkingTypes
    IN  SelectSeq(rs, Test)

ordered_non_networking_resources(rs) ==
    LET Test(r) == r.service \in {"elasticloadbalancingv2", "autoscaling"}
    IN  SelectSeq(rs, Test)

other_resources_of(rs) ==
    LET net == ordered_networking_resources(rs)
        non == ordered_non_networking_resources(rs)
        Test(r) == r.idkey = "resource_id" /\ ~InList(r, net) /\ ~InList(r, non)
    IN  SelectSeq(rs, Test)

non_ordered_resources(rs) ==
    LET net == ordered_networking_resources(rs)
        non == ordered_non_networking_resources(rs)
        oth == other_resources_of(rs)
        Test(r) == ~InList(r, net) /\ ~InList(r, non) /\ ~InList(r, oth)
    IN  SelectSeq(rs, Test)

\* the four extends of the elasticloadbalancingv2 / autoscaling group
extend_non_networking(non) ==
    OfService(non, "autoscaling")
        \o TypeContains(non, "loadbalancer")
        \o TypeContains(non, "listener")
        \o TypeContains(non, "targetgroup")

\* the extends of "securitygroup" and "vpc" exchanged
extend_networking_vpc_early(net) ==
    OfType(net, "instance")
        \o OfType(net, "vpcendpoint")
        \o OfType(net, "natgateway")
        \o OfType(net, "subnet")
        \o OfType(net, "eip")
        \o OfType(net, "internetgateway")
        \o OfType(net, "routetable")
        \o OfType(net, "vpc")
        \o OfType(net, "securitygroup")

\* the extends of "subnet" and "eip" exchanged
extend_networking_eip_early(net) ==
    OfType(net, "instance")
        \o OfType(net, "vpcendpoint")
        \o OfType(net, "natgateway")
        \o OfType(net, "eip")
        \o OfType(net, "subnet")
        \o OfType(net, "internetgateway")
        \o OfType(net, "routetable")
        \o OfType(net, "securitygroup")
        \o OfType(net, "vpc")

\* the nine extends of the networking group
extend_networking(net) ==
    OfType(net, "instance")
        \o OfType(net, "vpcendpoint")
        \o OfType(net, "natgateway")
        \o OfType(net, "subnet")
        \o OfType(net, "eip")
        \o OfType(net, "internetgateway")
        \o OfType(net, "routetable")
        \o OfType(net, "securitygroup")
        \o OfType(net, "vpc")

\* the bare-ID group extended after the load balancing group
concat_groups_swapped(a, b, c, d) == a \o c \o b \o d

concat_groups(a, b, c, d) == a \o b \o c \o d

order_resources_for_deletion(rs0) ==
    LET rs == without_application_autoscaling(rs0)
    IN  concat_groups(non_ordered_resources(rs),
                      other_resources_of(rs),
                      extend_non_networking(ordered_non_networking_resources(rs)),
                      extend_networking(ordered_networking_resources(rs)))

----------------------------------------------------------------------------
(* order_resources_for_deletion, the copy in main.py: "securitygroup" is    *)
(* neither in the networking tuple nor among the extends.                   *)

MainPyNetworkingTypes ==
    { "eip", "instance", "internetgateway", "natgateway", "routetable",
      "subnet", "transitgatewayattachment", "vpcendpoint", "vpc" }

main_py_ordered_networking_resources(rs) ==
    LET Test(r) == r.service = "ec2" /\ r.resource_type \in MainPyNetworkingTypes
    IN  SelectSeq(rs, Test)

main_py_extend_networking(net) ==
    OfType(net, "instance")
        \o OfType(net, "vpcendpoint")
        \o OfType(net, "natgateway")
        \o OfType(net, "subnet")
        \o OfType(net, "eip")
        \o OfType(net, "internetgateway")
        \o OfType(net, "routetable")
        \o OfType(net, "vpc")

main_py_order_resources_for_deletion(rs0) ==
    LET rs  == without_application_autoscaling(rs0)
        net == main_py_ordered_networking_resources(rs)
        non == ordered_non_networking_resources(rs)
        TestB(r) == r.idkey = "resource_id" /\ ~InList(r, net) /\ ~InList(r, non)
        oth == SelectSeq(rs, TestB)
        TestA(r) == ~InList(r, net) /\ ~InList(r, non) /\ ~InList(r, oth)
    IN  SelectSeq(rs, TestA) \o oth \o extend_non_networking(non)
            \o main_py_extend_networking(net)

----------------------------------------------------------------------------
(* DELETE_FUNCTIONS, delete_resource_map.py *)

\* the (service, resource_type) pairs that have an entry
DELETE_FUNCTIONS ==
    { <<"apigateway", "restapi">>,
      <<"apigatewayv2", "api">>, <<"apigatewayv2", "vpclink">>,
      <<"autoscaling", "autoscalinggroup">>,
      <<"certificatemanager", "certificate">>,
      <<"cloudfront", "distribution">>,
      <<"dynamodb", "table">>,
      <<"ec2", "ami">>, <<"ec2", "eip">>, <<"ec2", "instance">>,
      <<"ec2", "internetgateway">>, <<"ec2", "launchtemplate">>,
      <<"ec2", "natgateway">>, <<"ec2", "routetable">>,
      <<"ec2", "securitygroup">>, <<"ec2", "snapshot">>, <<"ec2", "subnet">>,
      <<"ec2", "transitgatewayattachment">>, <<"ec2", "vpc">>,
      <<"ec2", "vpcendpoint">>, <<"ec2", "vpcpeering">>,
      <<"elasticloadbalancingv2", "loadbalancer">>,
      <<"elasticloadbalancingv2", "listener">>,
      <<"elasticloadbalancingv2", "targetgroup">>,
      <<"kms", "key">>,
      <<"lambda", "function">>,
      <<"rds", "dbinstance">>,
      <<"route53", "hostedzone">>,
      <<"s3", "bucket">>,
      <<"secretsmanager", "secret">>,
      <<"sns", "topic">>,
      <<"sqs", "queue">> }

\* the entries that are "lambda resource: print(...)": a function of one
\* parameter, which delete_resource calls with (arn, region)
OneParameterStubs ==
    { <<"certificatemanager", "certificate">>,
      <<"ec2", "transitgatewayattachment">>, <<"ec2", "vpcpeering">>,
      <<"kms", "key">>, <<"rds", "dbinstance">>, <<"route53", "hostedzone">>,
      <<"secretsmanager", "secret">> }

HasDeleteFunction(resource) ==
    <<resource.service, resource.resource_type>> \in DELETE_FUNCTIONS

----------------------------------------------------------------------------
(* Python values *)

None == [tag |-> "None", items |-> <<>>]
List(s) == [tag |-> "list", items |-> s]

\* "if v:" for None and lists
Truthy(v) == v.tag = "list" /\ v.items # <<>>

----------------------------------------------------------------------------
(* What the provider and a handler can do at one dispatch *)

NotFoundCodes == {"NotFoundException", "NoSuchEntity", "ResourceNotFoundException"}

RetryableCodes ==
    { "DependencyViolation", "TooManyRequestsException", "ThrottlingException",
      "ServiceUnavailableException" }

\* a provider error code that is in neither list
UnclassifiedCode == "AccessDenied"

ErrorCodes == NotFoundCodes \cup RetryableCodes \cup {UnclassifiedCode}

----------------------------------------------------------------------------
(* Handlers of delete_functions.py. A handler is given the provider's state  *)
(* of the thing it deletes and the provider's answers to its calls; it      *)
(* yields [exc: the exception that leaves it ("none": it returns), code: the *)
(* error code of a ClientError, ret: its return value, log: what it prints   *)
(* last, calls: the provider calls it made, in order, after: the provider's  *)
(* state afterwards]                                                         *)

\* the answers of the provider to delete_launch_template(LaunchTemplateId=...)
LaunchTemplateAnswers(state) ==
    IF state = "Gone"
    THEN {"InvalidLaunchTemplateId.NotFound"}
    ELSE {"ok", "ThrottlingException", UnclassifiedCode}

\* delete_launch_template: "except botocore.exceptions.ClientError: raise"
delete_launch_template(state, answer) ==
    IF answer = "ok"
    THEN [exc |-> "none", code |-> "", ret |-> None,
          log |-> "was successfully deleted",
          calls |-> <<"delete_launch_template">>, after |-> "Gone"]
    ELSE [exc |-> "ClientError", code |-> answer, ret |-> None, log |-> "",
          calls |-> <<"delete_launch_template">>, after |-> state]

\* the states of an EC2 instance; "absent": no instance has the identifier
InstanceStates ==
    {"absent", "pending", "running", "stopping", "stopped", "shutting-down",
     "terminated"}

\* The provider's answers to the calls of delete_ec2_instance: describe |->
\* describe_instances ("ok" for an absent instance: no reservations),
\* terminate |-> terminate_instances ("non2xx": a response whose status code
\* is not 2xx), wait |-> the waiter instance_terminated
InstanceAnswers(state) ==
    { [describe |-> d, terminate |-> t, wait |-> x] :
        d \in {"ok", UnclassifiedCode}
              \cup (IF state = "absent" THEN {"InvalidInstanceID.NotFound"}
                    ELSE {}),
        t \in {"ok", "non2xx", UnclassifiedCode},
        x \in {"terminated", "WaiterError"} }

\* only a terminated instance is left alone
instance_status_is_final_terminated_only(instance_status) ==
    instance_status = "terminated"

\* instance_status in ['terminated', 'shutting-down']
instance_status_is_final(instance_status) ==
    instance_status \in {"terminated", "shutting-down"}

\* the wait made for an instance of an autoscaling group too
waits_for_termination_always(autoscaling) == TRUE

\* "if not autoscaling:" ec2_waiter([instance_id], region)
waits_for_termination(autoscaling) == ~autoscaling

delete_ec2_instance(state, w, autoscaling) ==
    IF w.describe = "InvalidInstanceID.NotFound"
    THEN [exc |-> "none", code |-> "", ret |-> None, log |-> "not found",
          calls |-> <<"describe_instances">>, after |-> state]
    ELSE IF w.describe # "ok"
    THEN [exc |-> "ClientError", code |-> w.describe, ret |-> None,
          log |-> "Error describing", calls |-> <<"describe_instances">>,
          after |-> state]
    ELSE IF state = "absent"
    THEN \* "if not response['Reservations']"
         [exc |-> "none", code |-> "", ret |-> None, log |-> "not found",
          calls |-> <<"describe_instances">>, after |-> state]
    ELSE IF instance_status_is_final(state)
    THEN [exc |-> "none", code |-> "", ret |-> None, log |-> "Skipping",
          calls |-> <<"describe_instances">>, after |-> state]
    ELSE IF w.terminate = "non2xx"
    THEN [exc |-> "RuntimeError", code |-> "", ret |-> None,
          log |-> "Unexpected error",
          calls |-> <<"describe_instances", "terminate_instances">>,
          after |-> state]
    ELSE IF w.terminate # "ok"
    THEN [exc |-> "ClientError", code |-> w.terminate, ret |-> None,
          log |-> "ClientError while terminating",
          calls |-> <<"describe_instances", "terminate_instances">>,
          after |-> state]
    ELSE IF ~waits_for_termination(autoscaling)
    THEN [exc |-> "none", code |-> "", ret |-> None, log |-> "is shutting down",
          calls |-> <<"describe_instances", "terminate_instances">>,
          after |-> "shutting-down"]
    ELSE IF w.wait = "terminated"
    THEN [exc |-> "none", code |-> "", ret |-> None,
          log |-> "has been terminated",
          calls |-> <<"describe_instances", "terminate_instances", "wait">>,
          after |-> "terminated"]
    ELSE \* the waiter gives up: WaiterError, re-raised by "except Exception"
         [exc |-> "WaiterError", code |-> "", ret |-> None,
          log |-> "Unexpected error",
          calls |-> <<"describe_instances", "terminate_instances", "wait">>,
          after |-> "shutting-down"]

\* a provider call and what it is made on
Call(op, arg) == [op |-> op, arg |-> arg]

\* the operations of a list of calls
Ops(calls) == [k \in 1..Len(calls) |-> calls[k].op]

\* the position of the first call of an operation, 0 if there is none
FirstCall(calls, op) ==
    IF \E k \in 1..Len(calls) : calls[k].op = op
    THEN CHOOSE k \in 1..Len(calls) :
            /\ calls[k].op = op
            /\ \A j \in 1..(k - 1) : calls[j].op # op
    ELSE 0

\* The provider's answers to the calls of delete_internet_gateway: describe
\* |-> describe_internet_gateways, fail_at |-> the attachment whose detach
\* call raises a ClientError (0: none), delete |-> delete_internet_gateway
InternetGatewayAnswers(attachments) ==
    { [describe |-> d, fail_at |-> f, delete |-> x] :
        d \in {"ok", UnclassifiedCode},
        f \in 0..Len(attachments),
        x \in {"ok", "DependencyViolation"} }

\* the delete call made whether or not a detach call has raised
goes_on_to_delete_always(fail_at) == TRUE

\* the "return" of the except block around the detach calls
goes_on_to_delete(fail_at) == fail_at = 0

\* attachments: the VPCs of response['InternetGateways'][0]['Attachments'];
\* after: the VPCs still attached, and whether the gateway exists
delete_internet_gateway(attachments, w) ==
    IF w.describe # "ok"
    THEN [exc |-> "none", code |-> "", ret |-> None, log |-> "Failed to detach",
          calls |-> <<Call("describe_internet_gateways", 0)>>,
          after |-> [attached |-> attachments, exists |-> TRUE]]
    ELSE LET n == IF w.fail_at = 0 THEN Len(attachments) ELSE w.fail_at
             detached == IF w.fail_at = 0 THEN Len(attachments)
                         ELSE w.fail_at - 1
             detach == <<Call("describe_internet_gateways", 0)>>
                       \o [k \in 1..n |->
                             Call("detach_internet_gateway", attachments[k])]
             left == SubSeq(attachments, detached + 1, Len(attachments))
         IN  IF ~goes_on_to_delete(w.fail_at)
             THEN [exc |-> "none", code |-> "", ret |-> None,
                   log |-> "Failed to detach", calls |-> detach,
                   after |-> [attached |-> left, exists |-> TRUE]]
             ELSE IF w.delete = "ok"
             THEN [exc |-> "none", code |-> "", ret |-> None,
                   log |-> "was successfully deleted",
                   calls |-> Append(detach, Call("delete_internet_gateway", 0)),
                   after |-> [attached |-> left, exists |-> FALSE]]
             ELSE \* except botocore.exceptions.ClientError: printed
                  [exc |-> "none", code |-> "", ret |-> None,
                   log |-> "Failed to delete",
                   calls |-> Append(detach, Call("delete_internet_gateway", 0)),
                   after |-> [attached |-> left, exists |-> TRUE]]

\* The provider's answers to the calls of delete_subnet: describe |->
\* describe_route_tables, fail_at |-> the association of the subnet whose
\* disassociate call raises (0: none), delete |-> delete_subnet
SubnetAnswers(n) ==
    { [describe |-> d, fail_at |-> f, delete |-> x] :
        d \in {"ok", UnclassifiedCode},
        f \in 0..n,
        x \in {"ok", "DependencyViolation"} }

\* assoc.get("SubnetId") == subnet_id
OfThisSubnet(assoc) == assoc.subnet = "this"

\* only the first association of the subnet
associations_of_subnet_first_only(route_tables) ==
    LET own == SelectSeq(route_tables, OfThisSubnet)
    IN  IF own = <<>> THEN own ELSE <<own[1]>>

\* the list "associations": the associations of the route tables found that
\* are with the subnet
associations_of_subnet(route_tables) == SelectSeq(route_tables, OfThisSubnet)

\* route_tables: the associations of the route tables that the filter
\* association.subnet-id finds, each [id, subnet: "this" or "other"];
\* after: the associations left, and whether the subnet exists
delete_subnet(route_tables, w) ==
    IF w.describe # "ok"
    THEN [exc |-> "ClientError", code |-> w.describe, ret |-> None, log |-> "",
          calls |-> <<Call("describe_route_tables", 0)>>,
          after |-> [associated |-> SelectSeq(route_tables, OfThisSubnet),
                     exists |-> TRUE]]
    ELSE LET associations == associations_of_subnet(route_tables)
             n == IF w.fail_at = 0 THEN Len(associations) ELSE w.fail_at
             gone == { associations[k].id :
                         k \in 1..(IF w.fail_at = 0 THEN Len(associations)
                                   ELSE w.fail_at - 1) }
             StillThere(assoc) == OfThisSubnet(assoc) /\ assoc.id \notin gone
             left == SelectSeq(route_tables, StillThere)
             disassociate ==
                 <<Call("describe_route_tables", 0)>>
                 \o [k \in 1..n |->
                       Call("disassociate_route_table", associations[k].id)]
         IN  IF w.fail_at # 0
             THEN \* disassociate_route_table raises, outside any try
                  [exc |-> "ClientError", code |-> UnclassifiedCode,
                   ret |-> None, log |-> "", calls |-> disassociate,
                   after |-> [associated |-> left, exists |-> TRUE]]
             ELSE IF w.delete = "ok"
             THEN [exc |-> "none", code |-> "", ret |-> None,
                   log |-> "was successfully deleted",
                   calls |-> Append(disassociate, Call("delete_subnet", 0)),
                   after |-> [associated |-> left, exists |-> FALSE]]
             ELSE \* delete_subnet raises, outside any try
                  [exc |-> "ClientError", code |-> w.delete, ret |-> None,
                   log |-> "",
                   calls |-> Append(disassociate, Call("delete_subnet", 0)),
                   after |-> [associated |-> left, exists |-> TRUE]]

\* the states of a NAT gateway
NatGatewayStates == {"pending", "available", "failed", "deleting", "deleted"}

\* The provider's answers to the calls of delete_nat_gateway: describe |->
\* describe_nat_gateways, delete |-> delete_nat_gateway, polls_needed |-> the
\* poll of the waiter nat_gateway_deleted that would see the gateway deleted
NatGatewayAnswers ==
    { [describe |-> d, delete |-> x, polls_needed |-> p] :
        d \in {"ok", "NatGatewayNotFound"},
        x \in {"ok", UnclassifiedCode},
        p \in 1..(MaxAttempts + 1) }

\* only a deleted gateway is left alone
nat_gateway_is_deleted_only(deleted) == deleted = "deleted"

\* deleted == 'deleted' or deleted == 'deleting'
nat_gateway_is_deleted(deleted) == deleted \in {"deleted", "deleting"}

\* polls: the polls of the waiter
delete_nat_gateway(state, w) ==
    IF w.describe # "ok"
    THEN \* describe_nat_gateways raises, outside any try
         [exc |-> "ClientError", code |-> w.describe, ret |-> None, log |-> "",
          calls |-> <<"describe_nat_gateways">>, after |-> state, polls |-> 0]
    ELSE IF nat_gateway_is_deleted(state)
    THEN [exc |-> "none", code |-> "", ret |-> None,
          log |-> "was already deleted",
          calls |-> <<"describe_nat_gateways">>, after |-> state, polls |-> 0]
    ELSE IF w.delete # "ok"
    THEN \* except Exception: printed
         [exc |-> "none", code |-> "", ret |-> None,
          log |-> "was not fully deleted",
          calls |-> <<"describe_nat_gateways", "delete_nat_gateway">>,
          after |-> state, polls |-> 0]
    ELSE IF w.polls_needed <= MaxAttempts
    THEN [exc |-> "none", code |-> "", ret |-> None,
          log |-> "has been fully deleted",
          calls |-> <<"describe_nat_gateways", "delete_nat_gateway", "wait">>,
          after |-> "deleted", polls |-> w.polls_needed]
    ELSE \* the waiter gives up: WaiterError, caught by except Exception
         [exc |-> "none", code |-> "", ret |-> None,
          log |-> "was not fully deleted",
          calls |-> <<"describe_nat_gateways", "delete_nat_gateway", "wait">>,
          after |-> "deleting", polls |-> MaxAttempts]

\* The provider's answers to the calls of delete_vpc: describe |->
\* describe_security_groups, sg |-> for each group found the answer to
\* delete_security_group, delete |-> delete_vpc (a response that is not 2xx
\* is raised as DependencyViolation by the handler itself)
VpcAnswers(n) ==
    { [describe |-> d, sg |-> g, delete |-> x] :
        d \in {"ok", UnclassifiedCode},
        g \in [1..n -> {"ok", "InvalidGroup.NotFound", "DependencyViolation",
                        UnclassifiedCode}],
        x \in {"ok", "DependencyViolation"} }

\* no group is taken for the default one
is_default_never(sg) == FALSE

\* sg['GroupName'] == 'default'
is_default(sg) == sg.name = "default"

\* the descriptor delete_vpc appends for a group it could not delete
security_group_retry(sg) ==
    [resource_type |-> "security_group", service |-> "ec2",
     resource_id |-> sg.id]

\* security_groups: the groups describe_security_groups finds, each [id,
\* name]; after: the groups left, and whether the VPC exists
delete_vpc(security_groups, w) ==
    IF w.describe # "ok"
    THEN \* describe_security_groups raises, outside any try
         [exc |-> "ClientError", code |-> w.describe, ret |-> None, log |-> "",
          calls |-> <<Call("describe_security_groups", 0)>>,
          after |-> [groups |-> security_groups, exists |-> TRUE]]
    ELSE LET NotDefault(sg) == ~is_default(sg)
             tried == SelectSeq(security_groups, NotDefault)
             Failed(sg) ==
                 /\ NotDefault(sg)
                 /\ w.sg[sg.id] \notin {"ok", "InvalidGroup.NotFound"}
             failed == SelectSeq(security_groups, Failed)
             StillThere(sg) == is_default(sg) \/ Failed(sg)
             left == SelectSeq(security_groups, StillThere)
             security_group_retries ==
                 [k \in 1..Len(failed) |-> security_group_retry(failed[k])]
             calls ==
                 <<Call("describe_security_groups", 0)>>
                 \o [k \in 1..Len(tried) |->
                       Call("delete_security_group", tried[k].id)]
                 \o <<Call("delete_vpc", 0)>>
         IN  IF w.delete # "ok"
             THEN \* "except botocore.exceptions.ClientError: raise"
                  [exc |-> "ClientError", code |-> w.delete, ret |-> None,
                   log |-> "", calls |-> calls,
                   after |-> [groups |-> left, exists |-> TRUE]]
             ELSE [exc |-> "none", code |-> "",
                   ret |-> IF security_group_retries # <<>>
                           THEN List(security_group_retries) ELSE None,
                   log |-> "was successfully deleted", calls |-> calls,
                   after |-> [groups |-> left, exists |-> FALSE]]

\* what tf.y_n_prompt can return: the operator's answer to a y/n question
YNPromptReturns == {"y", "n", ""}

\* the target groups a load balancer's listeners can forward to
TargetGroupArns == 1..MaxTargetGroups

\* The provider's and the operator's answers to delete_elastic_load_balancer:
\* describe |-> describe_listeners, describe_tg |-> describe_target_groups,
\* prompt |-> "Proceed with deletion process?", fail_at |-> the delete call,
\* counted from the first, that raises a ClientError (0: none), wait |-> the
\* waiter load_balancers_deleted; n is the number of delete calls
ElbAnswers(n) ==
    { [describe |-> d, describe_tg |-> t, prompt |-> a, fail_at |-> f,
       wait |-> x] :
        d \in {"ok", UnclassifiedCode},
        t \in {"ok", UnclassifiedCode},
        a \in YNPromptReturns,
        f \in 0..n,
        x \in {"ok", "WaiterError"} }

\* the target groups of the 'forward' actions of the listeners, as a list
target_group_arns(listeners) ==
    LET Forwarded(tg) == \E k \in 1..Len(listeners) : listeners[k].forward = tg
    IN  SelectSeq([tg \in TargetGroupArns |-> tg], Forwarded)

\* no target group is taken for one that another load balancer uses
attached_to_other_elbs_never(load_balancer_arns) == FALSE

\* len(tg_info['LoadBalancerArns']) > 1
attached_to_other_elbs(load_balancer_arns) == load_balancer_arns > 1

\* listeners: the listeners found, each [id, forward: the target group of its
\* forward action, 0 if it has none]; balancers: for each target group the
\* number of load balancers it is attached to; after: what is left
delete_elastic_load_balancer(listeners, balancers, w) ==
    LET tgs == target_group_arns(listeners)
        Shared(tg) == attached_to_other_elbs(balancers[tg])
        tgs_attached_to_other_elbs == SelectSeq(tgs, Shared)
        describes ==
            <<Call("describe_listeners", 0)>>
            \o [k \in 1..Len(tgs) |-> Call("describe_target_groups", tgs[k])]
        deletes ==
            [k \in 1..Len(listeners) |->
                Call("delete_listener", listeners[k].id)]
            \o [k \in 1..Len(tgs) |-> Call("delete_target_group", tgs[k])]
            \o <<Call("delete_load_balancer", 0)>>
        untouched == [listeners |-> Len(listeners), target_groups |-> Len(tgs),
                      exists |-> TRUE]
        Left(done) ==
            [listeners |-> Len(listeners)
                             - (IF done < Len(listeners) THEN done
                                ELSE Len(listeners)),
             target_groups |-> Len(tgs)
                                 - (IF done <= Len(listeners) THEN 0
                                    ELSE IF done - Len(listeners) < Len(tgs)
                                    THEN done - Len(listeners) ELSE Len(tgs)),
             exists |-> done < Len(deletes)]
    IN  IF w.describe # "ok"
        THEN \* describe_listeners raises, outside any try
             [exc |-> "ClientError", code |-> w.describe, ret |-> None,
              log |-> "", calls |-> <<Call("describe_listeners", 0)>>,
              after |-> untouched]
        ELSE IF tgs # <<>> /\ w.describe_tg # "ok"
        THEN \* describe_target_groups raises, outside any try
             [exc |-> "ClientError", code |-> w.describe_tg, ret |-> None,
              log |-> "", calls |-> SubSeq(describes, 1, 2),
              after |-> untouched]
        ELSE IF tgs_attached_to_other_elbs # <<>>
        THEN [exc |-> "none", code |-> "", ret |-> None,
              log |-> "cannot be deleted at this time", calls |-> describes,
              after |-> untouched]
        ELSE IF w.prompt # "y"
        THEN [exc |-> "none", code |-> "", ret |-> None,
              log |-> "Skipping ELB deletion", calls |-> describes,
              after |-> untouched]
        ELSE IF w.fail_at # 0
        THEN \* a delete call raises, outside any try
             [exc |-> "ClientError", code |-> UnclassifiedCode, ret |-> None,
              log |-> "", calls |-> describes \o SubSeq(deletes, 1, w.fail_at),
              after |-> Left(w.fail_at - 1)]
        ELSE [exc |-> "none", code |-> "", ret |-> None,
              log |-> IF w.wait = "ok" THEN "has been fully deleted"
                      ELSE "has not been fully deleted",
              calls |-> describes \o deletes \o <<Call("wait", 0)>>,
              after |-> Left(Len(deletes))]

\* a Python bool
PyBool(b) == [tag |-> "bool", value |-> b]

\* The operator's and the provider's answers to
\* create_dynamodb_table_backup: backup |-> "Would you like to create a
\* backup ...?", fails |-> the create_backup attempts that fail (an error
\* other than TableNotFoundException, or a response that is not 2xx) before
\* one ends otherwise, end |-> how that one ends
BackupAnswers ==
    { [backup |-> a, fails |-> f, end |-> e] :
        a \in YNPromptReturns,
        f \in 0..(backup_max_retries + 1),
        e \in {"ok", "TableNotFoundException"} }

\* "retry_delay += 1"
next_retry_delay(retry_delay) == retry_delay + 1

\* retry_delay at the sleep that follows the k-th failed attempt
RECURSIVE retry_delay_after(_)
retry_delay_after(k) ==
    IF k = 1 THEN 1 ELSE next_retry_delay(retry_delay_after(k - 1))

\* attempts: the create_backup calls; delays: the arguments of time.sleep
create_dynamodb_table_backup(w) ==
    IF w.backup # "y"
    THEN [ret |-> PyBool(FALSE), log |-> "Skipping backup creation",
          attempts |-> 0, delays |-> <<>>]
    ELSE IF w.fails < backup_max_retries
    THEN [ret |-> PyBool(FALSE),
          log |-> IF w.end = "ok" THEN "Backup created successfully"
                  ELSE "Could not create backup",
          attempts |-> w.fails + 1,
          delays |-> [k \in 1..w.fails |-> retry_delay_after(k)]]
    ELSE \* "while retry_number < max_retries" ends
         [ret |-> PyBool(TRUE), log |-> "Max retries reached",
          attempts |-> backup_max_retries,
          delays |-> [k \in 1..backup_max_retries |-> retry_delay_after(k)]]

\* what tf.warning_confirmation can return: the operator's answer, stripped
\* and in lower case
WarningReturns == {"yes", "y", "no"}

\* The operator's and the provider's answers to delete_dynamodb_table:
\* disable |-> "... has deletion protection enabled. Disable it?", update
\* |-> update_table, confirm |-> "... is not empty. Delete all items and the
\* table?", backup |-> the answers to create_dynamodb_table_backup, still
\* |-> "... Do you still want to delete the table?", delete |-> delete_table
DynamodbTableAnswers ==
    { [disable |-> d, update |-> u, confirm |-> c, backup |-> b, still |-> t,
       delete |-> x] :
        d \in WarningReturns,
        u \in {"ok", UnclassifiedCode},
        c \in WarningReturns,
        b \in BackupAnswers,
        t \in WarningReturns,
        x \in {"ok", "ValidationException", UnclassifiedCode} }

\* a y is a yes too
confirmed_y_too(answer) == answer \in {"yes", "y"}

\* the negation of "disable_protection != 'yes'", "confirm != 'yes'" and
\* "delete != 'yes'"
confirmed(answer) == answer = "yes"

\* table: [exists, deletion_protection, nonempty]; after: the table, and the
\* number of backups made
delete_dynamodb_table(table, w) ==
    LET describe == <<Call("describe_table", 0)>>
        update == IF table.deletion_protection
                  THEN <<Call("update_table", 0)>> ELSE <<>>
        unprotected == [table EXCEPT !.deletion_protection = FALSE]
        scan == describe \o update \o <<Call("scan", 0)>>
        b == create_dynamodb_table_backup(w.backup)
        made == IF table.nonempty /\ b.log = "Backup created successfully"
                THEN 1 ELSE 0
        backups == IF table.nonempty
                   THEN [k \in 1..b.attempts |-> Call("create_backup", k)]
                   ELSE <<>>
        Skipped(calls, t, n) ==
            [exc |-> "none", code |-> "", ret |-> None,
             log |-> "Skipping deletion", calls |-> calls,
             after |-> [table |-> t, backups |-> n]]
    IN  IF ~table.exists
        THEN \* except client.exceptions.ResourceNotFoundException
             [exc |-> "none", code |-> "", ret |-> None,
              log |-> "does not exist", calls |-> describe,
              after |-> [table |-> table, backups |-> 0]]
        ELSE IF table.deletion_protection /\ ~confirmed(w.disable)
        THEN Skipped(describe, table, 0)
        ELSE IF table.deletion_protection /\ w.update # "ok"
        THEN \* update_table raises, outside any try
             [exc |-> "ClientError", code |-> w.update, ret |-> None,
              log |-> "", calls |-> describe \o update,
              after |-> [table |-> table, backups |-> 0]]
        ELSE IF table.nonempty /\ ~confirmed(w.confirm)
        THEN Skipped(scan, unprotected, 0)
        ELSE IF table.nonempty /\ b.ret.value /\ ~confirmed(w.still)
        THEN Skipped(scan \o backups, unprotected, made)
        ELSE LET calls == scan \o backups \o <<Call("delete_table", 0)>>
             IN  IF w.delete = "ok"
                 THEN [exc |-> "none", code |-> "", ret |-> None,
                       log |-> "was successfully deleted", calls |-> calls,
                       after |-> [table |-> [unprotected EXCEPT
                                                !.exists = FALSE],
                                  backups |-> made]]
                 ELSE IF w.delete = "ValidationException"
                 THEN \* "has acted as a source region for new replica(s)"
                      [exc |-> "none", code |-> "", ret |-> None,
                       log |-> "Cannot delete table", calls |-> calls,
                       after |-> [table |-> unprotected, backups |-> made]]
                 ELSE \* "else: raise"
                      [exc |-> "ClientError", code |-> w.delete, ret |-> None,
                       log |-> "", calls |-> calls,
                       after |-> [table |-> unprotected, backups |-> made]]

\* delete_vpc: the security groups it could not delete
security_group_retries(resource) ==
    << [service |-> "ec2", resource_type |-> "security_group",
        idkey |-> "resource_id", id |-> 100 + resource.id,
        region |-> resource.region] >>

\* The outcomes of DELETE_FUNCTIONS[service][resource_type](arn, region):
\* a one-parameter stub cannot be called with two arguments (TypeError);
\* delete_launch_template returns None or re-raises the ClientError of its API
\* call; delete_vpc moreover returns the security groups it could not delete.
HandlerOutcomes(resource) ==
    IF <<resource.service, resource.resource_type>> \in OneParameterStubs
    THEN { [tag |-> "exception", code |-> "TypeError", items |-> <<>>] }
    ELSE { [tag |-> "return", code |-> "", items |-> <<>>] }
         \cup { [tag |-> "client_error", code |-> c, items |-> <<>>] : c \in ErrorCodes }
         \cup ( IF resource.resource_type = "vpc"
                THEN { [tag |-> "return", code |-> "",
                        items |-> security_group_retries(resource)] }
                ELSE {} )

\* The provider's states of a distribution: "Active" (Deployed, Enabled),
\* "Deploying" (InProgress, Enabled), "Disabling" (InProgress, not Enabled),
\* "Disabled" (Deployed, not Enabled), "Deleted"; "Absent": the identifier is
\* not one of a CloudFront distribution.
\* The provider's answers to the calls of disable_cloudfront_distribution:
\* get |-> the answer to get_distribution, call |-> the answer to
\* update_distribution (an active distribution) or delete_distribution.
CloudFrontOutcomes(status) ==
    IF status \in {"Deleted", "Absent"}
    THEN { [tag |-> "cloudfront", get |-> "NoSuchDistribution", call |-> "none"] }
    ELSE { [tag |-> "cloudfront", get |-> UnclassifiedCode, call |-> "none"] }
         \cup { [tag |-> "cloudfront", get |-> "ok", call |-> c] :
                  c \in IF status \in {"Active", "Disabled"}
                        THEN {"ok", UnclassifiedCode}
                        ELSE {"DistributionNotDisabled"} }

\* The provider's answers to delete_vpc_endpoints: "ok", an entry of
\* response['Unsuccessful'] with the given error code, or a ClientError
VpcEndpointAnswers(state) ==
    IF state = "Gone"
    THEN { [unsuccessful |-> "InvalidVpcEndpoint.NotFound", error |-> "none"] }
    ELSE { [unsuccessful |-> "none", error |-> "none"],
           [unsuccessful |-> "DependencyViolation", error |-> "none"],
           [unsuccessful |-> "none", error |-> UnclassifiedCode] }

\* delete_vpc_endpoint: every path prints and returns None
delete_vpc_endpoint(state, w) ==
    IF w.error # "none"
    THEN [exc |-> "none", code |-> "", ret |-> None, log |-> "Failed to delete",
          calls |-> <<"delete_vpc_endpoints">>, after |-> state]
    ELSE IF w.unsuccessful = "InvalidVpcEndpoint.NotFound"
    THEN [exc |-> "none", code |-> "", ret |-> None,
          log |-> "was already deleted",
          calls |-> <<"delete_vpc_endpoints">>, after |-> state]
    ELSE IF w.unsuccessful # "none"
    THEN [exc |-> "none", code |-> "", ret |-> None, log |-> "Failed to delete",
          calls |-> <<"delete_vpc_endpoints">>, after |-> state]
    ELSE [exc |-> "none", code |-> "", ret |-> None,
          log |-> "was successfully deleted",
          calls |-> <<"delete_vpc_endpoints">>, after |-> "Gone"]

\* whether the thing a descriptor names exists, for the handlers below
Existence == {"Present", "Gone"}

ExistenceOf(instance_state) ==
    IF instance_state \in {"absent", "shutting-down", "terminated"}
    THEN "Gone" ELSE "Present"

\* what delete_resource sees of a handler's call; after: whether the thing
\* still exists
ToOutcome(r, after) ==
    [tag |-> IF r.exc = "none" THEN "return"
             ELSE IF r.exc = "ClientError" THEN "client_error"
             ELSE "exception",
     code |-> IF r.exc = "ClientError" THEN r.code ELSE r.exc,
     items |-> <<>>, after |-> after]

\* the resource types whose existence a run can follow
ExistenceTypes ==
    {"launchtemplate", "instance", "internetgateway", "natgateway",
     "vpcendpoint"}

\* the outcomes of delete_internet_gateway(arn, region) on a gateway
\* attached to one VPC, or on none (the describe call raises)
InternetGatewayOutcomes(status) ==
    LET attachments == IF status = "Gone" THEN <<>> ELSE <<1>>
        answers == { w \in InternetGatewayAnswers(attachments) :
                       status = "Gone" <=> w.describe # "ok" }
    IN  { ToOutcome(delete_internet_gateway(attachments, w),
                    IF status = "Gone"
                       \/ ~delete_internet_gateway(attachments, w).after.exists
                    THEN "Gone" ELSE "Present") : w \in answers }

\* the outcomes of delete_nat_gateway(arn, region) on a gateway that is
\* available or deleted
NatGatewayOutcomes(status) ==
    LET state == IF status = "Gone" THEN "deleted" ELSE "available"
        answers == { w \in NatGatewayAnswers : w.describe = "ok" }
    IN  { ToOutcome(delete_nat_gateway(state, w),
                    IF delete_nat_gateway(state, w).after \in {"deleted", "deleting"}
                    THEN "Gone" ELSE "Present") : w \in answers }

\* the outcomes of the handlers that are followed, on a thing that exists
\* or does not
ExistenceOutcomes(resource, status) ==
    IF resource.resource_type = "launchtemplate"
    THEN { ToOutcome(delete_launch_template(status, a),
                     delete_launch_template(status, a).after) :
             a \in LaunchTemplateAnswers(status) }
    ELSE IF resource.resource_type = "internetgateway"
    THEN InternetGatewayOutcomes(status)
    ELSE IF resource.resource_type = "natgateway"
    THEN NatGatewayOutcomes(status)
    ELSE IF resource.resource_type = "vpcendpoint"
    THEN { ToOutcome(delete_vpc_endpoint(status, w),
                     delete_vpc_endpoint(status, w).after) :
             w \in VpcEndpointAnswers(status) }
    ELSE LET state == IF status = "Gone" THEN "absent" ELSE "running"
         IN  { ToOutcome(delete_ec2_instance(state, w, FALSE),
                         ExistenceOf(delete_ec2_instance(state, w, FALSE).after)) :
                 w \in InstanceAnswers(state) }

DispatchOutcomes(resource, status) ==
    IF resource.resource_type = "distribution" THEN CloudFrontOutcomes(status)
    ELSE IF HasDeleteFunction(resource) /\ status \in Existence
    THEN ExistenceOutcomes(resource, status)
    ELSE IF HasDeleteFunction(resource) THEN HandlerOutcomes(resource)
    ELSE { [tag |-> "not_called", code |-> "", items |-> <<>>] }

----------------------------------------------------------------------------
(* disable_cloudfront_distribution, delete_functions.py *)

\* the disable step waiting for the deployment itself
disable_cloudfront_distribution_waits(status, w) ==
    IF w.get # "ok"
    THEN [exc |-> "ClientError", code |-> w.get, retry |-> FALSE,
          status |-> status, calls |-> <<"get_distribution">>]
    ELSE IF status = "Active"
    THEN IF w.call = "ok"
         THEN [exc |-> "none", code |-> "", retry |-> TRUE,
               status |-> "Disabled",
               calls |-> <<"get_distribution", "update_distribution", "wait">>]
         ELSE [exc |-> "ClientError", code |-> w.call, retry |-> FALSE,
               status |-> status,
               calls |-> <<"get_distribution", "update_distribution">>]
    ELSE IF w.call = "ok"
    THEN [exc |-> "none", code |-> "", retry |-> FALSE, status |-> "Deleted",
          calls |-> <<"get_distribution", "delete_distribution">>]
    ELSE [exc |-> "none", code |-> "", retry |-> TRUE, status |-> status,
          calls |-> <<"get_distribution", "delete_distribution">>]

\* an error of the delete call taken for a deletion
disable_cloudfront_distribution_error_is_success(status, w) ==
    IF w.get # "ok"
    THEN [exc |-> "ClientError", code |-> w.get, retry |-> FALSE,
          status |-> status, calls |-> <<"get_distribution">>]
    ELSE IF status = "Active"
    THEN IF w.call = "ok"
         THEN [exc |-> "none", code |-> "", retry |-> TRUE,
               status |-> "Disabling",
               calls |-> <<"get_distribution", "update_distribution">>]
         ELSE [exc |-> "ClientError", code |-> w.call, retry |-> FALSE,
               status |-> status,
               calls |-> <<"get_distribution", "update_distribution">>]
    ELSE IF w.call \in {"ok", UnclassifiedCode}
    THEN [exc |-> "none", code |-> "", retry |-> FALSE,
          status |-> IF w.call = "ok" THEN "Deleted" ELSE status,
          calls |-> <<"get_distribution", "delete_distribution">>]
    ELSE [exc |-> "none", code |-> "", retry |-> TRUE, status |-> status,
          calls |-> <<"get_distribution", "delete_distribution">>]

\* [exc, code: the exception that leaves the function; retry: its return
\*  value; status: the distribution afterwards; calls: the provider calls
\*  made, in order]
disable_cloudfront_distribution(status, w) ==
    IF w.get # "ok"
    THEN \* client.get_distribution raises, outside any try
         [exc |-> "ClientError", code |-> w.get, retry |-> FALSE,
          status |-> status, calls |-> <<"get_distribution">>]
    ELSE IF status = "Active"
    THEN \* Deployed and Enabled: update_distribution, outside any try
         IF w.call = "ok"
         THEN [exc |-> "none", code |-> "", retry |-> TRUE,
               status |-> "Disabling",
               calls |-> <<"get_distribution", "update_distribution">>]
         ELSE [exc |-> "ClientError", code |-> w.call, retry |-> FALSE,
               status |-> status,
               calls |-> <<"get_distribution", "update_distribution">>]
    ELSE \* delete_distribution, inside try ... except Exception
         IF w.call = "ok"
         THEN [exc |-> "none", code |-> "", retry |-> FALSE,
               status |-> "Deleted",
               calls |-> <<"get_distribution", "delete_distribution">>]
         ELSE [exc |-> "none", code |-> "", retry |-> TRUE, status |-> status,
               calls |-> <<"get_distribution", "delete_distribution">>]

----------------------------------------------------------------------------
(* delete_resource, main_delete.py *)

\* the list of "already gone" codes without NoSuchEntity
classify_client_error_no_such_entity(resource, code) ==
    IF code \in {"NotFoundException", "ResourceNotFoundException"}
    THEN [ret |-> None, log |-> "not found, skipping"]
    ELSE IF code \in RetryableCodes
    THEN [ret |-> List(<<resource>>), log |-> "retrying later"]
    ELSE [ret |-> List(<<resource>>), log |-> "error, retrying later"]

\* a throttled descriptor given up instead of returned
classify_client_error_throttling_dropped(resource, code) ==
    IF code \in NotFoundCodes
    THEN [ret |-> None, log |-> "not found, skipping"]
    ELSE IF code \in RetryableCodes \ {"ThrottlingException"}
    THEN [ret |-> List(<<resource>>), log |-> "retrying later"]
    ELSE IF code = "ThrottlingException"
    THEN [ret |-> None, log |-> "retrying later"]
    ELSE [ret |-> List(<<resource>>), log |-> "error, retrying later"]

\* the except botocore.exceptions.ClientError block
classify_client_error(resource, code) ==
    IF code \in NotFoundCodes
    THEN [ret |-> None, log |-> "not found, skipping"]
    ELSE IF code \in RetryableCodes
    THEN [ret |-> List(<<resource>>), log |-> "retrying later"]
    ELSE [ret |-> List(<<resource>>), log |-> "error, retrying later"]

\* the provider's state after a handler's call, where the model follows it
AfterHandler(w, status) == IF "after" \in DOMAIN w THEN w.after ELSE status

\* [exc, code: the exception that leaves delete_resource ("none": it returns);
\*  ret: its return value; log: what it prints; status: the distribution
\*  afterwards; calls: the provider calls of the disable step, or the call of
\*  the registered handler]
delete_resource(resource, w, status) ==
    IF resource.resource_type = "distribution"
    THEN LET d == disable_cloudfront_distribution(status, w)
         IN  [exc |-> d.exc, code |-> d.code,
              ret |-> IF d.exc = "none" /\ d.retry THEN List(<<resource>>) ELSE None,
              log |-> "", status |-> d.status, calls |-> d.calls]
    ELSE IF HasDeleteFunction(resource)
    THEN CASE w.tag = "return" ->
                [exc |-> "none", code |-> "",
                 ret |-> IF w.items # <<>> THEN List(w.items) ELSE None,
                 log |-> "", status |-> AfterHandler(w, status),
                 calls |-> <<"handler">>]
           [] w.tag = "client_error" ->
                LET c == classify_client_error(resource, w.code)
                IN  [exc |-> "none", code |-> w.code, ret |-> c.ret,
                     log |-> c.log, status |-> AfterHandler(w, status),
                     calls |-> <<"handler">>]
           [] OTHER ->
                \* not a botocore.exceptions.ClientError: no except clause
                [exc |-> w.code, code |-> "", ret |-> None, log |-> "",
                 status |-> AfterHandler(w, status), calls |-> <<"handler">>]
    ELSE [exc |-> "none", code |-> "", ret |-> None,
          log |-> "must be deleted manually", status |-> status,
          calls |-> <<>>]

----------------------------------------------------------------------------
(* wait_for_distribution_disabled and delete_cloudfront_distribution, as    *)
(* retry_failed_deletions calls them inside one try block                   *)

\* the provider during the wait and the delete: the waiter sees the
\* distribution deployed in time or gives up, the delete call is answered
\* "ok" or with an error
WaitDeleteOutcomes(status) ==
    IF status \in {"Deleted", "Absent"}
    THEN { [wait |-> "error", call |-> "none"] }
    ELSE (IF status \in {"Disabling", "Deploying"}
          THEN { [wait |-> "max attempts", call |-> "none"] } ELSE {})
         \cup { [wait |-> "deployed", call |-> c] :
                  c \in IF status \in {"Active", "Deploying"}
                        THEN {"DistributionNotDisabled"}
                        ELSE {"ok", UnclassifiedCode} }

\* the state the waiter "distribution_deployed" returns in
Deployed(status) ==
    IF status = "Disabling" THEN "Disabled"
    ELSE IF status = "Deploying" THEN "Active"
    ELSE status

\* the delete call issued although the wait has raised
wait_and_delete_distribution_unguarded(status, w) ==
    IF w.wait # "deployed"
    THEN [raised |-> TRUE, status |-> status,
          calls |-> <<"wait", "get_distribution", "delete_distribution">>]
    ELSE IF w.call = "ok"
    THEN [raised |-> FALSE, status |-> "Deleted",
          calls |-> <<"wait", "get_distribution", "delete_distribution">>]
    ELSE [raised |-> TRUE, status |-> Deployed(status),
          calls |-> <<"wait", "get_distribution", "delete_distribution">>]

\* [raised: an exception left the try block; status: the distribution
\*  afterwards; calls: the calls made, in order]
wait_and_delete_distribution(status, w) ==
    IF w.wait # "deployed"
    THEN [raised |-> TRUE, status |-> status, calls |-> <<"wait">>]
    ELSE IF w.call = "ok"
    THEN [raised |-> FALSE, status |-> "Deleted",
          calls |-> <<"wait", "get_distribution", "delete_distribution">>]
    ELSE [raised |-> TRUE, status |-> Deployed(status),
          calls |-> <<"wait", "get_distribution", "delete_distribution">>]

----------------------------------------------------------------------------
(* main, main.py, and retry_failed_deletions, main_delete.py *)

NoResource ==
    [service |-> "", resource_type |-> "", idkey |-> "", id |-> 0, region |-> ""]

\* no dispatch since the latest step
NoDispatch ==
    [phase |-> "none", resource |-> NoResource, via |-> "none", tag |-> "none",
     exc |-> "none", code |-> "", ret |-> None, log |-> "", enqueued |-> <<>>,
     calls |-> <<>>, before |-> "none"]

\* how the descriptor was dispatched: to a registered handler, to the
\* disable step of a distribution, or to nothing
Via(resource) ==
    IF resource.resource_type = "distribution" THEN "disable"
    ELSE IF HasDeleteFunction(resource) THEN "handler"
    ELSE "none"

StatusOf(resource) ==
    IF resource.id \in DOMAIN dist_status THEN dist_status[resource.id] ELSE "none"

WithStatus(resource, status) ==
    IF resource.id \in DOMAIN dist_status
    THEN [dist_status EXCEPT ![resource.id] = status]
    ELSE dist_status

\* isinstance(v, dict): a descriptor, not a list
IsDict(v) == "resource_type" \in DOMAIN v

\* r.get("resource_type") == "distribution"
IsDistribution(r) == IsDict(r) /\ r.resource_type = "distribution"
NotDistribution(r) == ~IsDistribution(r)

\* before: the distribution's state when the descriptor was dispatched
Dispatched(phase, resource, w, d, enq) ==
    [phase |-> phase, resource |-> resource, via |-> Via(resource),
     tag |-> w.tag, exc |-> d.exc, code |-> d.code, ret |-> d.ret,
     log |-> d.log, enqueued |-> enq, calls |-> d.calls,
     before |-> StatusOf(resource)]

\* delete_resource(v) for a v that is a list: v["service"] raises TypeError
DispatchedList(v) ==
    [phase |-> "retry", resource |-> v, via |-> "none", tag |-> "none",
     exc |-> "TypeError", code |-> "", ret |-> None, log |-> "",
     enqueued |-> <<>>, calls |-> <<>>, before |-> "none"]

\* one turn of the wait-then-delete loop of retry_failed_deletions
Waited(resource, w, r, enq) ==
    [phase |-> "cloudfront", resource |-> resource, via |-> "wait",
     tag |-> w.wait, exc |-> IF r.raised THEN "Exception" ELSE "none",
     code |-> "", ret |-> None, log |-> "", enqueued |-> enq,
     calls |-> r.calls, before |-> StatusOf(resource)]

\* what a registered handler did at one invocation
OutcomeClass(w) ==
    IF w.tag = "client_error" /\ w.code \in RetryableCodes THEN "retryable"
    ELSE IF w.tag = "return" /\ w.items = <<>> THEN "success"
    ELSE "other"

\* n: the dispatches of the descriptor so far; kind: "retryable" (a registered
\* handler, every invocation raised a retryable code), "succeeded" (then one
\* invocation returned nothing), "other", or "none" (never dispatched);
\* waited: the wait-then-delete loop has not had the descriptor ("no"), has
\* deleted it ("deleted") or was left by an exception ("raised")
NeverDispatched == [n |-> 0, kind |-> "none", waited |-> "no"]

\* dv: the latest dispatch of the descriptor ended in a DependencyViolation
NeverFailed == [dv |-> FALSE]

\* manual: a dispatch of the descriptor found no handler ("must be deleted
\* manually")
NeverSkipped == [manual |-> FALSE]

HistAfter(resource, w) ==
    IF resource.id \notin DOMAIN hist THEN hist
    ELSE IF "dv" \in DOMAIN hist[resource.id]
    THEN [hist EXCEPT ![resource.id] =
             [dv |-> w.tag = "client_error" /\ w.code = "DependencyViolation"]]
    ELSE IF "manual" \in DOMAIN hist[resource.id]
    THEN [hist EXCEPT ![resource.id] =
             [manual |-> hist[resource.id].manual \/ Via(resource) = "none"]]
    ELSE LET h == hist[resource.id]
             c == IF Via(resource) = "handler" THEN OutcomeClass(w) ELSE "other"
             k == IF h.kind \in {"none", "retryable"} /\ c = "retryable"
                  THEN "retryable"
                  ELSE IF h.kind \in {"none", "retryable"} /\ c = "success"
                  THEN "succeeded"
                  ELSE "other"
         IN  [hist EXCEPT ![resource.id] =
                        [n |-> h.n + 1, kind |-> k, waited |-> h.waited]]

HistAfterWait(resource, r) ==
    IF resource.id \notin DOMAIN hist THEN hist
    ELSE [hist EXCEPT ![resource.id].waited =
                        IF r.raised THEN "raised" ELSE "deleted"]

\* the descriptors whose registered handler raised a "not found" code
GoneAfter(resource, w) ==
    IF Via(resource) = "handler" /\ w.tag = "client_error"
       /\ w.code \in NotFoundCodes
    THEN already_gone \cup {resource} ELSE already_gone

OrchestratorIdle ==
    /\ delete = "unasked"
    /\ prompt = "n"
    /\ idx = 1
    /\ failed_deletions = <<>>
    /\ cloudfront_resources = <<>>
    /\ other_resources = <<>>
    /\ new_failed_resources = <<>>
    /\ attempt = 0
    /\ ridx = 1
    /\ report = <<>>
    /\ slept = 0
    /\ last = NoDispatch
    /\ already_gone = {}

\* the descriptors of a run of the model: a registered handler, a handler
\* that returns sub-resources, a distribution, a one-parameter stub and a
\* type without an entry
PlanKinds ==
    { <<"ec2", "launchtemplate", "arn">>,
      <<"ec2", "vpc", "arn">>,
      <<"cloudfront", "distribution", "arn">>,
      <<"kms", "key", "arn">>,
      <<"iam", "role", "arn">> }

\* the descriptors of a run over types without an entry in DELETE_FUNCTIONS,
\* one of them a type "distribution" of another service than cloudfront
ManualPlanKinds ==
    { <<"ec2", "vpc", "arn">>,
      <<"iam", "role", "arn">>,
      <<"lightsail", "distribution", "arn">> }

\* the descriptors of a run of main.py's copy
MainPyPlanKinds ==
    { <<"ec2", "launchtemplate", "arn">>,
      <<"ec2", "vpc", "arn">>,
      <<"cloudfront", "distribution", "arn">> }

\* the descriptors of a run over distributions in every state
CloudFrontPlanKinds ==
    { <<"ec2", "launchtemplate", "arn">>,
      <<"cloudfront", "distribution", "arn">> }

\* the descriptors of a run over things that may not exist
GonePlanKinds ==
    { <<"ec2", "launchtemplate", "arn">>,
      <<"ec2", "instance", "arn">> }

\* the descriptors of a run that ends with a report: a registered handler
\* and a type without an entry
ReportPlanKinds ==
    { <<"ec2", "launchtemplate", "arn">>,
      <<"iam", "role", "arn">> }

\* the descriptors of a run over handlers that print the provider's refusal
\* and return, beside one that re-raises it
RejectedPlanKinds ==
    { <<"ec2", "launchtemplate", "arn">>,
      <<"ec2", "internetgateway", "arn">>,
      <<"ec2", "natgateway", "arn">>,
      <<"ec2", "vpcendpoint", "arn">> }

\* the descriptors of a run over a load balancer and its listener
ElbPlanKinds ==
    { <<"elasticloadbalancingv2", "loadbalancer", "arn">>,
      <<"elasticloadbalancingv2", "listener", "arn">> }

PlansOver(kinds) ==
    UNION { { [i \in 1..n |-> Descriptor(f[i], i)] : f \in [1..n -> kinds] }
            : n \in 0..MaxPlan }

PlanInputs == PlansOver(PlanKinds)

\* the provider's state of the thing a descriptor names, before the run
InitialStatus(r, statuses) ==
    IF r.resource_type \in ExistenceTypes
       /\ statuses \cap Existence # {}
    THEN statuses \cap Existence
    ELSE IF r.resource_type # "distribution" THEN {"none"}
    ELSE IF r.service = "cloudfront" THEN statuses
    ELSE {"Absent"}

\* plans: the lists of discovered resources; prog: the copy that runs;
\* statuses: the states a CloudFront distribution can be in before the run;
\* tracked: what hist keeps of a descriptor ({}: nothing)
InitRun(plans, prog, statuses, tracked) ==
    /\ pc = "discovered"
    /\ resources \in plans
    /\ ordered_resources = <<>>
    /\ program = prog
    /\ dist_status \in [1..Len(resources) -> statuses \cup {"Absent", "none"}]
    /\ \A i \in 1..Len(resources) :
          dist_status[i] \in InitialStatus(resources[i], statuses)
    /\ hist \in [1..(IF tracked = {} THEN 0 ELSE Len(resources)) -> tracked]
    /\ OrchestratorIdle

Init == InitRun(PlanInputs, "main_delete", {"Active", "Disabled"}, {})

\* main: the plan is ordered and printed
Plan ==
    /\ pc = "discovered"
    /\ ordered_resources' =
          IF program = "main_py"
          THEN main_py_order_resources_for_deletion(resources)
          ELSE order_resources_for_deletion(resources)
    /\ pc' = "confirm"
    /\ UNCHANGED <<resources, program, delete, mainvars, retryvars, dist_status,
                   ghostvars>>

\* what the operator may type at a y/n question
Answers == {"y", "Y", "n", ""}

\* str.lower() on the answers
lower(answer) == IF answer = "Y" THEN "y" ELSE answer

\* every answer but n taken for a yes
is_yes_unless_n(answer) == lower(answer) # "n"

\* the negation of "delete.lower() != 'y'"
is_yes(answer) == lower(answer) = "y"

\* main: "Are you sure ...?" answered otherwise than y: "Exiting..."
ConfirmNo ==
    /\ pc = "confirm"
    /\ \E answer \in Answers :
          /\ ~is_yes(answer)
          /\ delete' = lower(answer)
    /\ pc' = "done"
    /\ UNCHANGED <<resources, program, ordered_resources, mainvars, retryvars,
                   dist_status, ghostvars>>

\* main: answered y, then the prompt question
ConfirmYes ==
    /\ pc = "confirm"
    /\ \E answer \in Answers :
          /\ is_yes(answer)
          /\ delete' = lower(answer)
    /\ \E p \in {"y", "n"} : prompt' = p
    /\ pc' = "main"
    /\ UNCHANGED <<resources, program, ordered_resources, idx, failed_deletions,
                   retryvars, dist_status, ghostvars>>

\* main: the operator declines one resource
MainSkip ==
    /\ pc = "main"
    /\ idx <= Len(ordered_resources)
    /\ prompt = "y"
    /\ idx' = idx + 1
    /\ last' = NoDispatch
    /\ UNCHANGED <<ordervars, prompt, failed_deletions, retryvars, dist_status,
                   already_gone, hist>>

\* the list walked from its end
loop_item_reversed(list, i) == list[Len(list) + 1 - i]

\* "for resource in ordered_resources_for_deletion": the i-th turn's resource
loop_item(list, i) == list[i]

\* main: result = delete_resource(resource); failed_deletions.extend(result)
MainDispatch ==
    /\ pc = "main"
    /\ idx <= Len(ordered_resources)
    /\ LET resource == loop_item(ordered_resources, idx)
       IN  \E w \in DispatchOutcomes(resource, StatusOf(resource)) :
             LET d == delete_resource(resource, w, StatusOf(resource))
                 enq == IF d.exc = "none" /\ Truthy(d.ret) THEN d.ret.items
                        ELSE <<>>
             IN  /\ dist_status' = WithStatus(resource, d.status)
                 /\ last' = Dispatched("main", resource, w, d, enq)
                 /\ already_gone' = GoneAfter(resource, w)
                 /\ hist' = HistAfter(resource, w)
                 /\ IF d.exc # "none"
                    THEN /\ pc' = "aborted"
                         /\ UNCHANGED <<idx, failed_deletions>>
                    ELSE /\ pc' = pc
                         /\ idx' = idx + 1
                         /\ failed_deletions' = failed_deletions \o enq
    /\ UNCHANGED <<resources, program, delete, ordered_resources, prompt,
                   retryvars>>

\* main: nothing failed, retry_failed_deletions is not called
MainDone ==
    /\ pc = "main"
    /\ idx > Len(ordered_resources)
    /\ failed_deletions = <<>>
    /\ pc' = "done"
    /\ last' = NoDispatch
    /\ UNCHANGED <<resources, program, delete, ordered_resources, mainvars,
                   retryvars, dist_status, already_gone, hist>>

\* retry_failed_deletions(failed_deletions): the two lists
RetryStart ==
    /\ pc = "main"
    /\ idx > Len(ordered_resources)
    /\ failed_deletions # <<>>
    /\ cloudfront_resources' = SelectSeq(failed_deletions, IsDistribution)
    /\ other_resources' = SelectSeq(failed_deletions, NotDistribution)
    /\ pc' = "retry_cloudfront"
    /\ last' = NoDispatch
    /\ UNCHANGED <<planvars, mainvars, new_failed_resources, attempt, ridx,
                   report, slept, dist_status, already_gone, hist>>

\* one turn of "for resource in cloudfront_resources": wait, then delete; any
\* exception puts the distribution into other_resources
RetryCloudFront ==
    /\ pc = "retry_cloudfront"
    /\ cloudfront_resources # <<>>
    /\ LET resource == Head(cloudfront_resources)
       IN  \E w \in WaitDeleteOutcomes(StatusOf(resource)) :
             LET r == wait_and_delete_distribution(StatusOf(resource), w)
                 enq == IF r.raised THEN <<resource>> ELSE <<>>
             IN  /\ dist_status' = WithStatus(resource, r.status)
                 /\ other_resources' = other_resources \o enq
                 /\ last' = Waited(resource, w, r, enq)
                 /\ hist' = HistAfterWait(resource, r)
    /\ cloudfront_resources' = Tail(cloudfront_resources)
    /\ UNCHANGED <<planvars, mainvars, new_failed_resources, attempt, ridx,
                   report, slept, pc, already_gone>>

\* one round more than max_retries
round_range_one_more == 1..(max_retries + 1)

\* range(1, max_retries + 1)
round_range == 1..max_retries

\* "if other_resources == []: return", else the first round begins
RetryRoundsBegin ==
    /\ pc = "retry_cloudfront"
    /\ cloudfront_resources = <<>>
    /\ IF other_resources = <<>>
       THEN /\ pc' = "done"
            /\ UNCHANGED <<attempt, report>>
       ELSE IF 1 \in round_range
       THEN /\ pc' = "retry_round"
            /\ attempt' = 1
            /\ UNCHANGED report
       ELSE /\ pc' = "done"
            /\ report' = other_resources
            /\ UNCHANGED attempt
    /\ ridx' = 1
    /\ new_failed_resources' = <<>>
    /\ last' = NoDispatch
    /\ UNCHANGED <<planvars, mainvars, cloudfront_resources, other_resources,
                   slept, dist_status, already_gone, hist>>

\* "DependencyViolation" in str(e)
StrHasDependencyViolation(code) == code = "DependencyViolation"

\* what "if result: new_failed_resources.extend(result)" adds; main.py has
\* "new_failed_resources.append(result)" there, which adds the list itself
add_result(result) ==
    IF ~Truthy(result) THEN <<>>
    ELSE IF program = "main_py" THEN <<result>>
    ELSE result.items

\* one turn of "for resource in other_resources" of a round
RoundDispatch ==
    /\ pc = "retry_round"
    /\ ridx <= Len(other_resources)
    /\ LET resource == other_resources[ridx]
       IN  IF ~IsDict(resource)
           THEN \* delete_resource(resource) raises TypeError at resource["service"]
                /\ last' = DispatchedList(resource)
                /\ pc' = "aborted"
                /\ UNCHANGED <<ridx, new_failed_resources, dist_status,
                               already_gone, hist>>
           ELSE \E w \in DispatchOutcomes(resource, StatusOf(resource)) :
             LET d == delete_resource(resource, w, StatusOf(resource))
                 enq == IF d.exc = "none"
                        THEN add_result(d.ret)
                        ELSE IF d.exc = "ClientError"
                                /\ StrHasDependencyViolation(d.code)
                        THEN <<resource>>
                        ELSE <<>>
             IN  /\ dist_status' = WithStatus(resource, d.status)
                 /\ last' = Dispatched("retry", resource, w, d, enq)
                 /\ already_gone' = GoneAfter(resource, w)
                 /\ hist' = HistAfter(resource, w)
                 /\ IF d.exc \notin {"none", "ClientError"}
                    THEN /\ pc' = "aborted"
                         /\ UNCHANGED <<ridx, new_failed_resources>>
                    ELSE /\ pc' = pc
                         /\ ridx' = ridx + 1
                         /\ new_failed_resources' = new_failed_resources \o enq
    /\ UNCHANGED <<planvars, mainvars, cloudfront_resources, other_resources,
                   attempt, report, slept>>

\* the next round's list in the reverse of the dispatch order
next_retry_set_reversed(new_failed) ==
    [k \in 1..Len(new_failed) |-> new_failed[Len(new_failed) + 1 - k]]

\* the next round's list re-sorted by the ordering engine
next_retry_set_reordered(new_failed) == order_resources_for_deletion(new_failed)

\* other_resources = new_failed_resources
next_retry_set(new_failed) == new_failed

\* the end of a round: success, the next round after a sleep, or the report
RoundEnd ==
    /\ pc = "retry_round"
    /\ ridx > Len(other_resources)
    /\ IF new_failed_resources = <<>>
       THEN /\ pc' = "done"
            /\ UNCHANGED <<other_resources, attempt, report, slept>>
       ELSE /\ other_resources' = next_retry_set(new_failed_resources)
            /\ slept' = slept + 1
            /\ IF attempt + 1 \in round_range
               THEN /\ pc' = "retry_round"
                    /\ attempt' = attempt + 1
                    /\ UNCHANGED report
               ELSE /\ pc' = "done"
                    /\ report' = other_resources'
                    /\ UNCHANGED attempt
    /\ ridx' = 1
    /\ new_failed_resources' = <<>>
    /\ last' = NoDispatch
    /\ UNCHANGED <<planvars, mainvars, cloudfront_resources, dist_status,
                   already_gone, hist>>

\* the provider finishes deploying a distribution's configuration
DistributionDeployed ==
    /\ pc \in {"main", "retry_cloudfront", "retry_round"}
    /\ \E i \in DOMAIN dist_status :
          /\ dist_status[i] \in {"Disabling", "Deploying"}
          /\ dist_status' = [dist_status EXCEPT ![i] = Deployed(@)]
    /\ UNCHANGED <<ordervars, mainvars, retryvars, ghostvars>>

Next ==
    \/ Plan
    \/ ConfirmNo
    \/ ConfirmYes
    \/ MainSkip
    \/ MainDispatch
    \/ MainDone
    \/ RetryStart
    \/ RetryCloudFront
    \/ RetryRoundsBegin
    \/ RoundDispatch
    \/ RoundEnd
    \/ DistributionDeployed

Spec == Init /\ [][Next]_vars

\* main.py: its own copies of order_resources_for_deletion, delete_resource
\* and retry_failed_deletions
InitMainPy ==
    InitRun(PlansOver(MainPyPlanKinds), "main_py", {"Active", "Disabled"},
            {NeverDispatched})

SpecMainPy == InitMainPy /\ [][Next]_vars

\* the package's copies, over distributions that are deployed, being deployed
\* or disabled before the run
InitCloudFront ==
    InitRun(PlansOver(CloudFrontPlanKinds), "main_delete",
            {"Active", "Deploying", "Disabled"}, {NeverDispatched})

SpecCloudFront == InitCloudFront /\ [][Next]_vars

\* runs without a CloudFront distribution: the wait-then-delete loop of
\* retry_failed_deletions has nothing to do
InitElb == InitRun(PlansOver(ElbPlanKinds), "main_delete", {}, {NeverFailed})

InitManual == InitRun(PlansOver(ManualPlanKinds), "main_delete", {}, {})

NextNoCloudFront ==
    \/ Plan
    \/ ConfirmNo
    \/ ConfirmYes
    \/ MainSkip
    \/ MainDispatch
    \/ MainDone
    \/ RetryStart
    \/ RetryRoundsBegin
    \/ RoundDispatch
    \/ RoundEnd

SpecElb == InitElb /\ [][NextNoCloudFront]_vars

\* runs that keep which descriptors were dropped for lack of a handler
InitReport ==
    InitRun(PlansOver(ReportPlanKinds), "main_delete", {}, {NeverSkipped})

SpecReport == InitReport /\ [][NextNoCloudFront]_vars

\* runs over launch templates and instances that exist or do not
InitGone ==
    InitRun(PlansOver(GonePlanKinds), "main_delete", Existence,
            {NeverDispatched})

SpecGone == InitGone /\ [][NextNoCloudFront]_vars

\* runs over gateways and endpoints that exist
InitRejected ==
    InitRun(PlansOver(RejectedPlanKinds), "main_delete", {"Present"},
            {NeverDispatched})

SpecRejected == InitRejected /\ [][NextNoCloudFront]_vars

SpecManual == InitManual /\ [][NextNoCloudFront]_vars

----------------------------------------------------------------------------
(* The ordering engine applied to every input list *)

InitOrder ==
    /\ pc = "discovering"
    /\ resources = <<>>
    /\ ordered_resources = <<>>
    /\ program = "main_delete"
    /\ dist_status = <<>>
    /\ hist = <<>>
    /\ OrchestratorIdle

\* main: resources_for_deletion.append(...), one more discovered resource; the
\* n-th descriptor carries the identifier n
Discover ==
    /\ pc = "discovering"
    /\ Len(resources) < MaxLen
    /\ \E kind \in Kinds :
          resources' = Append(resources, Descriptor(kind, Len(resources) + 1))
    /\ UNCHANGED <<pc, ordered_resources, program, delete, mainvars, retryvars,
                   dist_status, ghostvars>>

\* get_and_order.order_resources_for_deletion(resources)
Order ==
    /\ pc = "discovering"
    /\ ordered_resources' = order_resources_for_deletion(resources)
    /\ pc' = "ordered"
    /\ UNCHANGED <<resources, program, delete, mainvars, retryvars, dist_status,
                   ghostvars>>

\* main.order_resources_for_deletion(resources)
OrderMainPy ==
    /\ pc = "discovering"
    /\ ordered_resources' = main_py_order_resources_for_deletion(resources)
    /\ pc' = "ordered_main_py"
    /\ UNCHANGED <<resources, program, delete, mainvars, retryvars, dist_status,
                   ghostvars>>

NextOrder == Discover \/ Order \/ OrderMainPy

SpecOrder == InitOrder /\ [][NextOrder]_vars

----------------------------------------------------------------------------
(* The handlers called on every state of the thing they delete and with     *)
(* every answer of the provider                                             *)

InitHandlers ==
    /\ pc = "handlers"
    /\ resources = <<>>
    /\ ordered_resources = <<>>
    /\ program = "main_delete"
    /\ dist_status = <<>>
    /\ hist = <<>>
    /\ OrchestratorIdle

\* the latest call of a handler: the handler, its arguments beyond (arn,
\* region), the provider's state before, the provider's answers and what the
\* handler did
HandlerCall(name, args, before, w, r) ==
    [phase |-> "call", via |-> name, args |-> args, before |-> before,
     answers |-> w, exc |-> r.exc, code |-> r.code, ret |-> r.ret,
     log |-> r.log, calls |-> r.calls, after |-> r.after,
     polls |-> IF "polls" \in DOMAIN r THEN r.polls ELSE 0]

\* a handler is called, once, and has returned or raised
HandlerReturns ==
    /\ pc = "handlers"
    /\ pc' = "returned"
    /\ UNCHANGED <<planvars, mainvars, retryvars, dist_status, already_gone,
                   hist>>

\* delete_ec2_instance(arn, region, autoscaling)
CallDeleteEc2Instance ==
    /\ HandlerReturns
    /\ \E state \in InstanceStates, autoscaling \in BOOLEAN :
          \E w \in InstanceAnswers(state) :
             last' = HandlerCall("delete_ec2_instance", autoscaling, state, w,
                                 delete_ec2_instance(state, w, autoscaling))

\* the lists of distinct VPCs an internet gateway can be attached to
AttachmentLists ==
    { a \in UNION { [1..n -> 1..MaxAttachments] : n \in 0..MaxAttachments } :
        \A i, j \in 1..Len(a) : a[i] = a[j] => i = j }

\* delete_internet_gateway(arn, region)
CallDeleteInternetGateway ==
    /\ HandlerReturns
    /\ \E attachments \in AttachmentLists :
          \E w \in InternetGatewayAnswers(attachments) :
             last' = HandlerCall("delete_internet_gateway", 0, attachments, w,
                                 delete_internet_gateway(attachments, w))

\* the associations of the route tables found for a subnet: none, or at
\* least one with the subnet
RouteTableLists ==
    { [k \in 1..Len(g) |-> [id |-> k, subnet |-> g[k]]] :
        g \in { f \in UNION { [1..n -> {"this", "other"}] :
                                n \in 0..MaxAssociations } :
                  f = <<>> \/ \E k \in 1..Len(f) : f[k] = "this" } }

\* delete_subnet(arn, region)
CallDeleteSubnet ==
    /\ HandlerReturns
    /\ \E route_tables \in RouteTableLists :
          \E w \in SubnetAnswers(Len(associations_of_subnet(route_tables))) :
             last' = HandlerCall("delete_subnet", 0, route_tables, w,
                                 delete_subnet(route_tables, w))

\* delete_nat_gateway(arn, region)
CallDeleteNatGateway ==
    /\ HandlerReturns
    /\ \E state \in NatGatewayStates, w \in NatGatewayAnswers :
          last' = HandlerCall("delete_nat_gateway", 0, state, w,
                              delete_nat_gateway(state, w))

\* the security groups of a VPC: at most one is the default one
SecurityGroupLists ==
    { [k \in 1..Len(g) |-> [id |-> k, name |-> g[k]]] :
        g \in { f \in UNION { [1..n -> {"default", "web"}] :
                                n \in 0..MaxGroups } :
                  \A i, j \in 1..Len(f) :
                     (f[i] = "default" /\ f[j] = "default") => i = j } }

\* delete_vpc(arn, region)
CallDeleteVpc ==
    /\ HandlerReturns
    /\ \E security_groups \in SecurityGroupLists :
          \E w \in VpcAnswers(Len(security_groups)) :
             last' = HandlerCall("delete_vpc", 0, security_groups, w,
                                 delete_vpc(security_groups, w))

\* the listeners of a load balancer
ListenerLists ==
    { [k \in 1..Len(g) |-> [id |-> k, forward |-> g[k]]] :
        g \in UNION { [1..n -> {0} \cup TargetGroupArns] :
                        n \in 0..MaxListeners } }

\* delete_elastic_load_balancer(arn, region)
CallDeleteElasticLoadBalancer ==
    /\ HandlerReturns
    /\ \E listeners \in ListenerLists, balancers \in [TargetGroupArns -> 1..2] :
          \E w \in ElbAnswers(Len(listeners)
                               + Len(target_group_arns(listeners)) + 1) :
             last' = HandlerCall("delete_elastic_load_balancer", 0,
                                 [listeners |-> listeners,
                                  balancers |-> balancers], w,
                                 delete_elastic_load_balancer(listeners,
                                                              balancers, w))

NextHandlers ==
    \/ CallDeleteElasticLoadBalancer
    \/ CallDeleteEc2Instance
    \/ CallDeleteInternetGateway
    \/ CallDeleteSubnet
    \/ CallDeleteNatGateway
    \/ CallDeleteVpc

SpecHandlers == InitHandlers /\ [][NextHandlers]_vars

\* create_dynamodb_table_backup(arn, region)
CallCreateDynamodbTableBackup ==
    /\ HandlerReturns
    /\ \E w \in BackupAnswers :
          LET b == create_dynamodb_table_backup(w)
          IN  last' = HandlerCall("create_dynamodb_table_backup", 0, 0, w,
                                  [exc |-> "none", code |-> "", ret |-> b.ret,
                                   log |-> b.log,
                                   calls |-> [k \in 1..b.attempts |->
                                                Call("create_backup", k)],
                                   after |-> b.delays])

\* the tables: one that is gone, and the ones that exist
DynamodbTables ==
    { [exists |-> FALSE, deletion_protection |-> FALSE, nonempty |-> FALSE] }
    \cup { [exists |-> TRUE, deletion_protection |-> p, nonempty |-> n] :
             p \in BOOLEAN, n \in BOOLEAN }

\* delete_dynamodb_table(arn, region)
CallDeleteDynamodbTable ==
    /\ HandlerReturns
    /\ \E table \in DynamodbTables, w \in DynamodbTableAnswers :
          last' = HandlerCall("delete_dynamodb_table", 0, table, w,
                              delete_dynamodb_table(table, w))

NextDynamodb ==
    \/ CallCreateDynamodbTableBackup
    \/ CallDeleteDynamodbTable

SpecDynamodb == InitHandlers /\ [][NextDynamodb]_vars

----------------------------------------------------------------------------
(* Properties of the ordering engine *)

IsNetworking(r) == r.service = "ec2" /\ r.resource_type \in NetworkingTypes
IsBucketC(r) == r.service \in {"elasticloadbalancingv2", "autoscaling"}
IsVpc(r) == r.service = "ec2" /\ r.resource_type = "vpc"

\* 1: unconstrained, 2: bare ID, 3: autoscaling / load balancing, 4: networking
BucketRank(r) ==
    IF IsNetworking(r) THEN 4
    ELSE IF IsBucketC(r) THEN 3
    ELSE IF r.idkey = "resource_id" THEN 2
    ELSE 1

\* the fixed order of the networking types
NetworkingOrder ==
    << "instance", "vpcendpoint", "natgateway", "subnet", "eip",
       "internetgateway", "routetable", "securitygroup", "vpc" >>

NetworkingRank(r) ==
    CHOOSE k \in 1..Len(NetworkingOrder) : NetworkingOrder[k] = r.resource_type

IsOrderedNetworking(r) ==
    /\ r.service = "ec2"
    /\ \E k \in 1..Len(NetworkingOrder) : NetworkingOrder[k] = r.resource_type

\* 1: scaling group, 2: load balancer, 3: listener, 4: target group, 0: none
BucketCRank(r) ==
    IF r.service = "autoscaling" THEN 1
    ELSE IF Contains("loadbalancer", r.resource_type) THEN 2
    ELSE IF Contains("listener", r.resource_type) THEN 3
    ELSE IF Contains("targetgroup", r.resource_type) THEN 4
    ELSE 0

\* the bucket, and the sub-group of buckets C and D
Group(r) ==
    IF IsNetworking(r) THEN <<4, r.resource_type>>
    ELSE IF IsBucketC(r) THEN <<3, BucketCRank(r)>>
    ELSE <<BucketRank(r), 0>>

KindsOf(s) == [k \in 1..Len(s) |-> <<s[k].service, s[k].resource_type>>]

\* C1: every input descriptor whose service is not applicationautoscaling is
\* in the output exactly once, and no applicationautoscaling descriptor is.
C1_EveryDescriptorExactlyOnce ==
    pc = "ordered" =>
        /\ \A k \in 1..Len(resources) :
              resources[k].service # "applicationautoscaling"
                  => Count(resources[k], ordered_resources) = 1
        /\ \A k \in 1..Len(ordered_resources) :
              ordered_resources[k].service # "applicationautoscaling"

\* C2: the output is bucket A, then B, then C, then D: a descriptor of a later
\* bucket never precedes one of an earlier bucket.
C2_BucketsInOrder ==
    pc = "ordered" =>
        \A i, j \in 1..Len(ordered_resources) :
            i < j => BucketRank(ordered_resources[i])
                        <= BucketRank(ordered_resources[j])

\* an input whose three descriptors come in the reverse of the bucket order
C2_Witness ==
    /\ pc = "ordered"
    /\ Len(resources) = 3
    /\ Len(ordered_resources) = 3
    /\ BucketRank(resources[1]) > BucketRank(resources[2])
    /\ BucketRank(resources[2]) > BucketRank(resources[3])

\* C3: nothing but vpc descriptors follows a vpc descriptor, and every subnet
\* and security group of the input is placed before every vpc of the input
\* (both copies of the function).
C3_VpcLast ==
    pc \in {"ordered", "ordered_main_py"} =>
        /\ \A i, j \in 1..Len(ordered_resources) :
              (i < j /\ IsVpc(ordered_resources[i])) => IsVpc(ordered_resources[j])
        /\ \A a, b \in 1..Len(resources) :
              ( /\ resources[a].service = "ec2"
                /\ resources[a].resource_type \in {"subnet", "securitygroup"}
                /\ IsVpc(resources[b]) )
              => \E i, j \in 1..Len(ordered_resources) :
                    /\ i < j
                    /\ ordered_resources[i] = resources[a]
                    /\ ordered_resources[j] = resources[b]

\* the scenario [vpc V, subnet S, security group G]
C3_Witness ==
    /\ pc = "ordered"
    /\ KindsOf(resources)
         = << <<"ec2", "vpc">>, <<"ec2", "subnet">>, <<"ec2", "securitygroup">> >>
    /\ Len(ordered_resources) = 3

C5_BucketCOrderedExactlyOnce ==
    pc = "ordered" =>
        /\ \A i, j \in 1..Len(ordered_resources) :
              ( /\ i < j
                /\ IsBucketC(ordered_resources[i])
                /\ IsBucketC(ordered_resources[j]) )
              => BucketCRank(ordered_resources[i])
                    <= BucketCRank(ordered_resources[j])
        /\ \A k \in 1..Len(resources) :
              IsBucketC(resources[k]) => Count(resources[k], ordered_resources) = 1

\* C6: two descriptors of the same bucket (A, B) or sub-group (C, D) that both
\* come out keep the relative order they had in the input.
C6_Stable ==
    pc = "ordered" =>
        \A a, b \in 1..Len(resources) :
            ( /\ a < b
              /\ Group(resources[a]) = Group(resources[b])
              /\ InList(resources[a], ordered_resources)
              /\ InList(resources[b], ordered_resources) )
            => \E i, j \in 1..Len(ordered_resources) :
                  /\ i < j
                  /\ ordered_resources[i] = resources[a]
                  /\ ordered_resources[j] = resources[b]

\* two subnets around a vpc, and two buckets around both
C6_Witness ==
    /\ pc = "ordered"
    /\ KindsOf(resources)
         = << <<"ec2", "subnet">>, <<"ec2", "vpc">>, <<"ec2", "subnet">> >>
    /\ ordered_resources = << resources[1], resources[3], resources[2] >>

----------------------------------------------------------------------------
(* Properties of the dispatch and of its error classification *)

\* the latest dispatch raised a provider error (from the registered handler
\* or from the disable step of a distribution) with the given codes
ProviderErrorAtDispatch(codes) ==
    /\ last.phase \in {"main", "retry"}
    /\ last.tag = "client_error" \/ last.exc = "ClientError"
    /\ last.code \in codes

\* the latest dispatch went to a registered handler, which raised a provider
\* error with one of the given codes
HandlerRaised(codes) ==
    /\ last.phase \in {"main", "retry"}
    /\ last.via = "handler"
    /\ last.tag = "client_error"
    /\ last.code \in codes

\* the descriptor the latest dispatch was handed
DispatchedDescriptor ==
    IF last.phase = "main" THEN ordered_resources[idx - 1]
    ELSE other_resources[ridx - 1]

\* the list the latest dispatch's result was added to
DispatchQueue ==
    IF last.phase = "main" THEN failed_deletions ELSE new_failed_resources

\* C7: no exception raised while a descriptor is dispatched leaves
\* delete_resource and retry_failed_deletions: the run is never aborted.
C7_NoExceptionPropagates == pc # "aborted"

\* C8: a dispatch that raises a provider error with an unclassified code
\* re-enqueues the descriptor, in the main pass and in a retry round (a run
\* that the exception aborts is the matter of C7).
C8_UnclassifiedReenqueued ==
    (ProviderErrorAtDispatch({UnclassifiedCode}) /\ pc # "aborted") =>
        last.enqueued = <<last.resource>>

\* C9: a registered handler's NotFoundException, NoSuchEntity or
\* ResourceNotFoundException makes delete_resource return None; the dispatch
\* enqueues nothing and the descriptor is in no later retry set or report.
C9_NotFoundDropped ==
    /\ HandlerRaised(NotFoundCodes) =>
          /\ last.exc = "none"
          /\ last.ret = None
          /\ last.enqueued = <<>>
          /\ last.log = "not found, skipping"
    /\ \A r \in already_gone :
          /\ ~InList(r, new_failed_resources)
          /\ ~InList(r, report)
          /\ pc = "main" => ~InList(r, failed_deletions)

\* a descriptor that was throttled in the main pass is found gone in a round
C9_Witness ==
    /\ HandlerRaised({"NoSuchEntity"})
    /\ last.phase = "retry"
    /\ InList(last.resource, failed_deletions)
    /\ last.resource \in already_gone

\* C10: a registered handler's DependencyViolation, TooManyRequestsException,
\* ThrottlingException or ServiceUnavailableException makes delete_resource
\* return the list of exactly the dispatched descriptor, unchanged, which is
\* added to the retry queue.
C10_RetryableReenqueued ==
    HandlerRaised(RetryableCodes) =>
        /\ last.exc = "none"
        /\ last.ret = List(<<DispatchedDescriptor>>)
        /\ last.enqueued = <<DispatchedDescriptor>>
        /\ DispatchQueue # <<>>
        /\ DispatchQueue[Len(DispatchQueue)] = DispatchedDescriptor

\* a throttled launch template in the second retry round
C10_Witness ==
    /\ HandlerRaised({"ThrottlingException"})
    /\ last.phase = "retry"
    /\ attempt = 2
    /\ last.resource.resource_type = "launchtemplate"
    /\ new_failed_resources = <<last.resource>>

\* a distribution's unclassified provider error in a retry round: the round
\* neither re-enqueues nor reports the descriptor
UnclassifiedDroppedInRound ==
    /\ ProviderErrorAtDispatch({UnclassifiedCode})
    /\ last.phase = "retry"
    /\ pc = "retry_round"
    /\ last.enqueued = <<>>

----------------------------------------------------------------------------
(* Properties of the registry lookup and of the retry rounds *)

\* the descriptors in the lists of the retry machinery
Queued(r) ==
    \/ InList(r, failed_deletions)
    \/ InList(r, cloudfront_resources)
    \/ InList(r, other_resources)
    \/ InList(r, new_failed_resources)
    \/ InList(r, report)

\* C11: a descriptor whose (service, resource_type) has no entry in
\* DELETE_FUNCTIONS is logged as "must be deleted manually" and dropped: its
\* dispatch makes no call, raises nothing and enqueues nothing, and the
\* descriptor is in no list of the retry machinery at any time.
C11_UnregisteredDropped ==
    /\ ( /\ last.phase \in {"main", "retry"}
         /\ IsDict(last.resource)
         /\ ~HasDeleteFunction(last.resource) )
       => /\ last.calls = <<>>
          /\ last.exc = "none"
          /\ last.log = "must be deleted manually"
          /\ last.ret = None
          /\ last.enqueued = <<>>
    /\ \A k \in 1..Len(resources) :
          ~HasDeleteFunction(resources[k]) => ~Queued(resources[k])

\* the same for the types other than "distribution": an iam role is dropped
\* with the log line, and the run goes on to the next descriptor
UnregisteredNonDistributionDropped ==
    /\ ( /\ last.phase \in {"main", "retry"}
         /\ IsDict(last.resource)
         /\ ~HasDeleteFunction(last.resource)
         /\ last.resource.resource_type # "distribution" )
       => /\ last.calls = <<>>
          /\ last.exc = "none"
          /\ last.log = "must be deleted manually"
          /\ last.enqueued = <<>>
          /\ pc # "aborted"
    /\ \A k \in 1..Len(resources) :
          ( /\ ~HasDeleteFunction(resources[k])
            /\ resources[k].resource_type # "distribution" )
          => ~Queued(resources[k])

\* every descriptor of the plan goes to a registered handler that takes
\* (arn, region)
HandlersOnly ==
    \A k \in 1..Len(resources) :
        /\ Via(resources[k]) = "handler"
        /\ <<resources[k].service, resources[k].resource_type>>
              \notin OneParameterStubs

\* so far every handler has raised retryable codes and then, at most once,
\* returned nothing (it succeeds on its N-th invocation)
SucceedsOnNth ==
    /\ HandlersOnly
    /\ \A i \in DOMAIN hist : hist[i].kind \in {"none", "retryable", "succeeded"}

\* so far every handler has raised a retryable code at every invocation
AlwaysRetryable ==
    /\ HandlersOnly
    /\ \A i \in DOMAIN hist : hist[i].kind \in {"none", "retryable"}

\* C12: when every handler raises retryable codes and then succeeds, in a
\* round N <= max_retries, retry_failed_deletions is not left by an exception
\* and ends with an empty retry set and nothing reported as permanently failed.
C12_RetryConvergence ==
    (SucceedsOnNth /\ attempt <= max_retries) =>
        /\ pc # "aborted"
        /\ ( /\ pc = "done"
             /\ \A i \in DOMAIN hist : hist[i].kind \in {"none", "succeeded"} )
           => /\ report = <<>>
              /\ new_failed_resources = <<>>

\* C13: when a handler raises a retryable code at every invocation, the run
\* goes through max_retries rounds and then the descriptor is in the report of
\* the permanently failed exactly once.
C13_RetryExhaustion ==
    AlwaysRetryable =>
        /\ pc # "aborted"
        /\ pc = "done" =>
              \A k \in 1..Len(resources) :
                  hist[k].n >= 1 =>
                      /\ hist[k].n = 1 + max_retries
                      /\ attempt = max_retries
                      /\ Count(resources[k], report) = 1

\* a handler that failed in the main pass and in the first round and
\* succeeded in the second round; the run ended with nothing to report
SucceededInSecondRound ==
    /\ pc = "done"
    /\ attempt = 2
    /\ HandlersOnly
    /\ \E i \in DOMAIN hist : hist[i].n = 3 /\ hist[i].kind = "succeeded"
    /\ report = <<>>

\* a handler that failed in the main pass and in every round, reported once
ReportedAfterLastRound ==
    /\ pc = "done"
    /\ attempt = max_retries
    /\ AlwaysRetryable
    /\ \E k \in 1..Len(resources) :
          /\ hist[k].n = 1 + max_retries
          /\ hist[k].kind = "retryable"
          /\ Count(resources[k], report) = 1

\* the run is over: main has returned, or an exception has ended it
Terminated == pc \in {"done", "aborted"}

\* every step that can be taken is taken at some time: the program runs on
\* and the operator answers
SpecManualLive == SpecManual /\ WF_vars(NextNoCloudFront)

\* retry_failed_deletions has been called and has not returned
InRetry == pc \in {"retry_cloudfront", "retry_round"}

\* retry_failed_deletions is in its last round and the round's list is done
LastRoundOver ==
    /\ pc = "retry_round"
    /\ attempt = max_retries
    /\ ridx > Len(other_resources)

\* C14: retry_failed_deletions makes at most max_retries rounds and returns,
\* whatever the handlers return (a provider error, nothing, sub-resources);
\* what is left after the last round is the report of the permanently failed.
C14_BoundedRounds ==
    /\ [](attempt <= max_retries)
    /\ <>Terminated
    /\ InRetry ~> (pc = "done")
    /\ [][ LastRoundOver =>
              /\ pc' = "done"
              /\ report' = new_failed_resources ]_vars

\* after the last round the report holds a vpc that was throttled in every
\* round, or the sub-resource a vpc's handler returned in the last round
C14_Witness ==
    /\ pc = "done"
    /\ attempt = max_retries
    /\ Len(report) = 2
    /\ report[1].resource_type = "vpc"
    /\ report[2].resource_type = "security_group"

----------------------------------------------------------------------------
(* Properties of the teardown of a distribution *)

\* the latest dispatch went to the disable step, whose get_distribution was
\* answered with the distribution in one of the given states
DisableStepSaw(states) ==
    /\ last.phase \in {"main", "retry"}
    /\ last.via = "disable"
    /\ last.before \in states
    /\ Len(last.calls) >= 2

\* C15: the dispatch of a distribution that is Active (Deployed, Enabled)
\* issues the disable call (update_distribution) and no delete call, and
\* delete_resource returns the descriptor, which is enqueued for retry.
C15_ActiveOnlyDisabled ==
    DisableStepSaw({"Active"}) =>
        /\ last.calls = <<"get_distribution", "update_distribution">>
        /\ last.exc = "none"
        /\ last.ret = List(<<last.resource>>)
        /\ last.enqueued = <<last.resource>>

\* the same when the provider accepts the disable call
ActiveOnlyDisabledWhenAccepted ==
    (DisableStepSaw({"Active"}) /\ last.exc = "none") =>
        /\ last.calls = <<"get_distribution", "update_distribution">>
        /\ last.ret = List(<<last.resource>>)
        /\ last.enqueued = <<last.resource>>
        /\ StatusOf(last.resource) \in {"Disabling", "Disabled", "Deleted"}

C17_WaitThenDelete ==
    /\ last.phase = "cloudfront" =>
          /\ last.calls[1] = "wait"
          /\ last.tag # "deployed" => last.calls = <<"wait">>
          /\ IF last.exc # "none"
             THEN /\ last.enqueued = <<last.resource>>
                  /\ other_resources # <<>>
                  /\ other_resources[Len(other_resources)] = last.resource
                  /\ hist[last.resource.id].waited = "raised"
             ELSE /\ last.enqueued = <<>>
                  /\ StatusOf(last.resource) = "Deleted"
                  /\ hist[last.resource.id].waited = "deleted"
    /\ (last.phase = "retry" /\ IsDistribution(last.resource)) =>
          hist[last.resource.id].waited = "raised"
    /\ \A k \in 1..Len(resources) :
          hist[k].waited = "deleted" =>
              /\ ~InList(resources[k], other_resources)
              /\ ~InList(resources[k], new_failed_resources)
              /\ ~InList(resources[k], report)

\* the scenario: an Active distribution, disabled in the main pass, is waited
\* on while Disabling and then deleted; no round follows
C17_Witness ==
    /\ last.phase = "cloudfront"
    /\ last.before = "Disabling"
    /\ last.calls = <<"wait", "get_distribution", "delete_distribution">>
    /\ StatusOf(last.resource) = "Deleted"
    /\ hist[last.resource.id].n = 1
    /\ other_resources = <<>>

\* C18: the main pass never waits on a distribution: the wait is made only
\* by retry_failed_deletions, after the main pass is through the ordered list.
C18_NoWaitInMainPass ==
    /\ \A k \in 1..Len(last.calls) :
          last.calls[k] = "wait" =>
              /\ last.phase = "cloudfront"
              /\ idx > Len(ordered_resources)
              /\ pc \in {"retry_cloudfront", "retry_round", "done"}
    /\ pc = "main" =>
          /\ \A i \in DOMAIN hist : hist[i].waited = "no"
          /\ cloudfront_resources = <<>>

\* a distribution still Disabling when the main pass ends, waited on by the
\* retry function until the waiter gives up
C18_Witness ==
    /\ last.phase = "cloudfront"
    /\ last.before = "Disabling"
    /\ last.tag = "max attempts"
    /\ pc = "retry_cloudfront"
    /\ idx = Len(ordered_resources) + 1
    /\ InList(last.resource, failed_deletions)

----------------------------------------------------------------------------
(* Properties of the retry set *)

\* the list a dispatch returned ([] for None)
Items(v) == IF Truthy(v) THEN v.items ELSE <<>>

\* a step that dispatches the next descriptor of a round
RoundDispatchStep == pc = "retry_round" /\ ridx' = ridx + 1

\* a step from one round to the next
NextRoundStep == pc = "retry_round" /\ attempt' = attempt + 1

\* C19: during a round the retry set is not touched and what each dispatch
\* returns is appended to the list of the round, which becomes the retry set
\* of the next round as it is, not re-sorted; a descriptor whose dispatch
\* returned nothing is not in it.
C19_RetrySetIsConcatenation ==
    [][ /\ RoundDispatchStep =>
              /\ other_resources' = other_resources
              /\ new_failed_resources'
                    = new_failed_resources \o Items(last'.ret)
              /\ last'.ret = None =>
                    ~InList(last'.resource, new_failed_resources')
        /\ NextRoundStep =>
              /\ other_resources' = new_failed_resources
              /\ new_failed_resources' = <<>> ]_vars

\* the second round over a vpc and then a distribution: the ordering engine
\* would put the distribution first
C19_Witness ==
    /\ pc = "retry_round"
    /\ attempt = 2
    /\ ridx = 1
    /\ Len(other_resources) = 2
    /\ other_resources[1].resource_type = "vpc"
    /\ other_resources[2].resource_type = "distribution"
    /\ other_resources # order_resources_for_deletion(other_resources)

\* a round begins
RoundBegins == pc = "retry_round" /\ ridx = 1

\* positions i, j of the retry set hold a load balancer and a listener whose
\* latest dispatches both ended in a DependencyViolation
BothFailedWithDependencyViolation(i, j) ==
    /\ other_resources[i].resource_type = "loadbalancer"
    /\ other_resources[j].resource_type = "listener"
    /\ hist[other_resources[i].id].dv
    /\ hist[other_resources[j].id].dv

\* C20 as stated: a round that begins with a load balancer and a listener
\* that both failed with DependencyViolation dispatches the listener first.
C20_ListenerFirst ==
    RoundBegins =>
        \A i, j \in 1..Len(other_resources) :
            BothFailedWithDependencyViolation(i, j) => j < i

\* C20: a round that begins with a load balancer and a listener that both
\* failed with DependencyViolation dispatches them in the order of the pass
\* before, the load balancer first; the one that succeeds in the round is
\* cleared in that round.
C20_LoadBalancerFirst ==
    /\ RoundBegins =>
          \A i, j \in 1..Len(other_resources) :
              BothFailedWithDependencyViolation(i, j) => i < j
    /\ (last.phase = "retry" /\ last.tag = "return") =>
          /\ last.enqueued = <<>>
          /\ ~InList(last.resource, new_failed_resources)

\* the second round begins with the load balancer and the listener that both
\* failed with DependencyViolation in the first
C20_Witness ==
    /\ RoundBegins
    /\ attempt = 2
    /\ Len(other_resources) = 2
    /\ BothFailedWithDependencyViolation(1, 2)

----------------------------------------------------------------------------
(* Properties of the main pass *)

\* a step of the main pass that dispatches a descriptor: the loop goes on to
\* the next one, or an exception ends the run
MainDispatchStep ==
    /\ pc = "main"
    /\ last'.phase = "main"
    /\ idx' # idx \/ pc' = "aborted"

\* C21: the main pass dispatches the descriptors of the ordered list one at a
\* time, in list order, each at most once; a descriptor that was dispatched
\* before is dispatched again only in a retry round.
C21_MainPassInOrderOnce ==
    [][ /\ MainDispatchStep =>
              /\ idx \in 1..Len(ordered_resources)
              /\ last'.resource = ordered_resources[idx]
              /\ hist[last'.resource.id].n = 0
              /\ hist'[last'.resource.id].n = 1
              /\ \A i \in DOMAIN hist :
                    i # last'.resource.id => hist'[i] = hist[i]
              /\ idx' = idx + 1 \/ pc' = "aborted"
        /\ pc = "main" =>
              /\ idx' \in {idx, idx + 1}
              /\ ordered_resources' = ordered_resources
        /\ \A i \in DOMAIN hist :
              (hist[i].n >= 1 /\ hist'[i].n > hist[i].n) =>
                  pc = "retry_round" ]_vars

\* the main pass is through a list of two that the ordering engine has
\* reordered, each dispatched once, the second of the list last
C21_Witness ==
    /\ pc = "main"
    /\ Len(ordered_resources) = 2
    /\ ordered_resources # resources
    /\ idx = 3
    /\ \A i \in DOMAIN hist : hist[i].n = 1
    /\ last.phase = "main"
    /\ last.resource = ordered_resources[2]

\* a descriptor that failed in the main pass is dispatched a second time, in
\* the first retry round
SecondDispatchInRound ==
    /\ pc = "retry_round"
    /\ attempt = 1
    /\ last.phase = "retry"
    /\ IsDict(last.resource)
    /\ last.resource.id \in DOMAIN hist
    /\ hist[last.resource.id].n = 2

\* the latest dispatch went to the registered handler of a thing that did
\* not exist
DispatchedGone ==
    /\ last.phase \in {"main", "retry"}
    /\ last.via = "handler"
    /\ last.before = "Gone"

\* C22: the dispatch of a descriptor whose resource does not exist ends as
\* already gone: the handler raises nothing, delete_resource returns None,
\* nothing is enqueued and the outcome is not logged as an error to retry.
C22_GoneIsAlreadyGone ==
    DispatchedGone =>
        /\ last.tag = "return"
        /\ last.exc = "none"
        /\ last.ret = None
        /\ last.enqueued = <<>>
        /\ last.log # "error, retrying later"

\* the same for an EC2 instance whose describe call the provider answers
InstanceGoneIsAlreadyGone ==
    ( /\ DispatchedGone
      /\ last.resource.resource_type = "instance"
      /\ last.code # UnclassifiedCode ) =>
        /\ last.tag = "return"
        /\ last.exc = "none"
        /\ last.ret = None
        /\ last.enqueued = <<>>

\* a launch template that was never there: its handler re-raises the
\* provider's InvalidLaunchTemplateId.NotFound, which delete_resource takes for
\* an error to retry, and the descriptor is in the report after the last round
GoneLaunchTemplateReported ==
    /\ pc = "done"
    /\ attempt = max_retries
    /\ \E k \in 1..Len(resources) :
          /\ resources[k].resource_type = "launchtemplate"
          /\ dist_status[k] = "Gone"
          /\ hist[k].n = 1 + max_retries
          /\ InList(resources[k], report)

\* an instance that was never there is dispatched and dropped
GoneInstanceDropped ==
    /\ DispatchedGone
    /\ last.resource.resource_type = "instance"
    /\ last.tag = "return"
    /\ last.enqueued = <<>>

----------------------------------------------------------------------------
(* Properties of the sub-resources a handler returns *)

\* a descriptor that is not of the plan: a handler has returned it
IsSubResource(r) == IsDict(r) /\ r.id \notin 1..Len(resources)

\* the latest dispatch was of a sub-resource, in a retry round
SubResourceDispatched ==
    /\ last.phase = "retry"
    /\ IsSubResource(last.resource)

\* the sub-resources a handler returns are added to the retry queue, and are
\* dispatched in a round
SubResourcesEnqueued ==
    /\ (last.phase \in {"main", "retry"} /\ last.tag = "return") =>
          last.enqueued = last.ret.items
    /\ (last.phase = "main" /\ last.tag = "return" /\ pc = "main") =>
          \A k \in 1..Len(last.ret.items) :
              InList(last.ret.items[k], failed_deletions)

\* C23: a sub-resource descriptor that a handler returns is added to the
\* retry queue and is dispatched in a retry round to a registered handler
\* for its (service, resource_type); it is not dropped for lack of a handler.
C23_SubResourcesHandled ==
    /\ SubResourcesEnqueued
    /\ SubResourceDispatched =>
          /\ HasDeleteFunction(last.resource)
          /\ last.via = "handler"
          /\ last.calls = <<"handler">>
          /\ last.log # "must be deleted manually"

\* the security group that delete_vpc returned in the main pass is dispatched
\* in the first round, where no handler is found for ec2 / security_group
SubResourceDropped ==
    /\ SubResourceDispatched
    /\ attempt = 1
    /\ InList(last.resource, failed_deletions)
    /\ last.resource.resource_type = "security_group"
    /\ last.log = "must be deleted manually"
    /\ last.calls = <<>>
    /\ last.enqueued = <<>>

----------------------------------------------------------------------------
(* Properties of main's confirmation *)

\* no descriptor has been dispatched
NothingDispatched ==
    /\ last = NoDispatch
    /\ \A i \in DOMAIN hist : hist[i].n = 0
    /\ idx = 1
    /\ failed_deletions = <<>>
    /\ already_gone = {}

\* the ordered plan that main prints
PlanIsOut ==
    ordered_resources =
        IF program = "main_py"
        THEN main_py_order_resources_for_deletion(resources)
        ELSE order_resources_for_deletion(resources)

\* C24: main prints the ordered plan before it asks and before any dispatch,
\* and dispatches nothing unless the answer to the question after the plan
\* is y.
C24_PlanThenConfirm ==
    /\ pc = "discovered" => (delete = "unasked" /\ NothingDispatched)
    /\ pc = "confirm" => (PlanIsOut /\ delete = "unasked" /\ NothingDispatched)
    /\ delete # "unasked" => PlanIsOut
    /\ ~NothingDispatched => (PlanIsOut /\ delete = "y")
    /\ delete \notin {"unasked", "y"} => (pc = "done" /\ NothingDispatched)

\* the operator has seen a plan of two and has not answered y: the run is
\* over and nothing was dispatched
C24_Witness ==
    /\ pc = "done"
    /\ Len(ordered_resources) = 2
    /\ ordered_resources # resources
    /\ delete = ""
    /\ NothingDispatched

\* the operator has answered y and the first descriptor of the plan has been
\* dispatched
DispatchedAfterYes ==
    /\ pc = "main"
    /\ delete = "y"
    /\ idx = 2
    /\ last.phase = "main"
    /\ last.resource = ordered_resources[1]

----------------------------------------------------------------------------
(* Properties of the final report *)

\* retry_failed_deletions has printed "All resources were successfully
\* deleted.": a round ended with nothing new failed
ReportedAllDeleted ==
    /\ pc = "done"
    /\ attempt >= 1
    /\ report = <<>>

\* the descriptors the final report lists as to be deleted manually: the
\* report prints the list of those that could not be deleted and no other
manually_skipped_report == <<>>

\* C25: at the end of a run the final report tells the descriptors dropped
\* for lack of a handler as manually skipped, apart from the permanently
\* failed, and the run is reported as fully successful only when no
\* descriptor was manually skipped or has permanently failed.
C25_ReportPartition ==
    pc = "done" =>
        /\ \A k \in 1..Len(resources) :
              hist[k].manual =>
                  /\ InList(resources[k], manually_skipped_report)
                  /\ ~InList(resources[k], report)
        /\ ReportedAllDeleted =>
              /\ \A k \in 1..Len(resources) : ~hist[k].manual
              /\ report = <<>>

\* the run is reported as fully successful only when nothing has permanently
\* failed
SuccessOnlyWithoutFailures ==
    ReportedAllDeleted =>
        /\ new_failed_resources = <<>>
        /\ \A k \in 1..Len(resources) :
              ~hist[k].manual => ~InList(resources[k], report)

\* an iam role was dropped for lack of a handler, a throttled launch template
\* was deleted in the first round, and the run ends with "All resources were
\* successfully deleted."
AllDeletedAfterManualSkip ==
    /\ ReportedAllDeleted
    /\ attempt = 1
    /\ \E k \in 1..Len(resources) :
          /\ resources[k].resource_type = "role"
          /\ hist[k].manual

----------------------------------------------------------------------------
(* Properties of the handlers *)

\* the latest step was a call of the named handler
Called(name) == last.phase = "call" /\ last.via = name

\* describe_instances said that there is no such instance, or that it is
\* terminated or shutting down
InstanceGoneOrFinal ==
    \/ last.answers.describe = "InvalidInstanceID.NotFound"
    \/ /\ last.answers.describe = "ok"
       /\ last.before \in {"absent", "terminated", "shutting-down"}

\* C26: delete_ec2_instance issues no terminate call and returns None when
\* the instance is not found or its state is 'terminated' or 'shutting-down'.
C26_NoTerminateWhenGone ==
    (Called("delete_ec2_instance") /\ InstanceGoneOrFinal) =>
        /\ last.calls = <<"describe_instances">>
        /\ ~InList("terminate_instances", last.calls)
        /\ last.exc = "none"
        /\ last.ret = None
        /\ last.after = last.before

\* an instance that is shutting down is left alone
C26_Witness ==
    /\ Called("delete_ec2_instance")
    /\ last.before = "shutting-down"
    /\ last.answers.describe = "ok"
    /\ last.calls = <<"describe_instances">>
    /\ last.log = "Skipping"

\* an instance that is not found is left alone
InstanceNotFoundLeftAlone ==
    /\ Called("delete_ec2_instance")
    /\ last.before = "absent"
    /\ last.answers.describe = "InvalidInstanceID.NotFound"
    /\ last.calls = <<"describe_instances">>
    /\ last.log = "not found"

\* the terminate call was made and the provider accepted it
TerminateAccepted ==
    /\ InList("terminate_instances", last.calls)
    /\ last.answers.terminate = "ok"

\* C27: after an accepted terminate call delete_ec2_instance waits for the
\* instance to be terminated exactly when it was not called with
\* autoscaling=True: then it returns only with the instance terminated; with
\* autoscaling=True it returns without a wait.
C27_WaitUnlessAutoscaling ==
    (Called("delete_ec2_instance") /\ TerminateAccepted) =>
        /\ InList("wait", last.calls) <=> ~last.args
        /\ last.args =>
              /\ last.calls = <<"describe_instances", "terminate_instances">>
              /\ last.exc = "none"
              /\ last.ret = None
        /\ ~last.args =>
              /\ last.calls
                    = <<"describe_instances", "terminate_instances", "wait">>
              /\ last.exc = "none" =>
                    (last.after = "terminated" /\ last.ret = None)
              /\ last.exc # "none" => last.answers.wait # "terminated"

\* a running instance, terminated and waited for until it is terminated
C27_Witness ==
    /\ Called("delete_ec2_instance")
    /\ ~last.args
    /\ last.before = "running"
    /\ TerminateAccepted
    /\ last.calls = <<"describe_instances", "terminate_instances", "wait">>
    /\ last.exc = "none"
    /\ last.after = "terminated"

\* the call with autoscaling=True that returns right after the terminate call
AutoscalingNotWaited ==
    /\ Called("delete_ec2_instance")
    /\ last.args
    /\ TerminateAccepted
    /\ last.after = "shutting-down"

\* the attachments on which a detach call was made before the k-th call, and
\* was answered
DetachedBefore(k) ==
    { last.calls[j].arg :
        j \in { i \in 1..(k - 1) :
                  /\ last.calls[i].op = "detach_internet_gateway"
                  /\ last.answers.fail_at # i - 1 } }

DetachFailedNoDelete ==
    /\ Called("delete_internet_gateway")
    /\ last.answers.fail_at = 1
    /\ FirstCall(last.calls, "delete_internet_gateway") = 0
    /\ last.after.attached = last.before
    /\ last.after.exists

\* the associations on which a disassociate call was made before the k-th
\* call
DisassociatedBefore(k) ==
    { last.calls[j].arg :
        j \in { i \in 1..(k - 1) :
                  last.calls[i].op = "disassociate_route_table" } }

\* C29: delete_subnet disassociates every route table association of the
\* subnet before it issues the delete_subnet call, and when it returns the
\* subnet no longer exists.
C29_DisassociateBeforeDelete ==
    Called("delete_subnet") =>
        LET k == FirstCall(last.calls, "delete_subnet")
        IN  /\ k # 0 =>
                 /\ k = Len(last.calls)
                 /\ \A i \in 1..Len(last.before) :
                       last.before[i].subnet = "this" =>
                           last.before[i].id \in DisassociatedBefore(k)
                 /\ last.after.associated = <<>>
            /\ last.exc = "none" =>
                 /\ k # 0
                 /\ ~last.after.exists

\* a subnet with two associations, in route tables that hold no other:
\* two disassociate calls, then the delete call, and the subnet is gone
C29_Witness ==
    /\ Called("delete_subnet")
    /\ Len(last.before) = 2
    /\ \A i \in 1..2 : last.before[i].subnet = "this"
    /\ Ops(last.calls) = <<"describe_route_tables", "disassociate_route_table",
                           "disassociate_route_table", "delete_subnet">>
    /\ last.exc = "none"
    /\ ~last.after.exists

\* C30: delete_nat_gateway issues no delete call when the gateway is
\* 'deleted' or 'deleting'; otherwise it issues the delete call and, the call
\* accepted, waits for the gateway to be deleted, for at most MaxAttempts
\* polls, before it returns.
C30_DeleteThenWait ==
    (Called("delete_nat_gateway") /\ last.answers.describe = "ok") =>
        /\ last.exc = "none"
        /\ last.ret = None
        /\ IF last.before \in {"deleted", "deleting"}
           THEN /\ last.calls = <<"describe_nat_gateways">>
                /\ last.after = last.before
           ELSE /\ Len(last.calls) >= 2
                /\ last.calls[2] = "delete_nat_gateway"
                /\ last.answers.delete = "ok" =>
                      /\ last.calls = <<"describe_nat_gateways",
                                        "delete_nat_gateway", "wait">>
                      /\ last.polls \in 1..MaxAttempts
                      /\ last.polls < MaxAttempts => last.after = "deleted"
                      /\ last.log = "has been fully deleted"
                            <=> last.after = "deleted"
                /\ last.answers.delete # "ok" =>
                      ~InList("wait", last.calls)

\* an available gateway that the waiter sees deleted at its last poll
C30_Witness ==
    /\ Called("delete_nat_gateway")
    /\ last.before = "available"
    /\ last.calls = <<"describe_nat_gateways", "delete_nat_gateway", "wait">>
    /\ last.polls = MaxAttempts
    /\ last.after = "deleted"

\* a gateway that is being deleted is left alone
NatGatewayDeletingLeftAlone ==
    /\ Called("delete_nat_gateway")
    /\ last.before = "deleting"
    /\ last.calls = <<"describe_nat_gateways">>

\* the waiter gives up after MaxAttempts polls and the handler returns
NatGatewayWaitGivenUp ==
    /\ Called("delete_nat_gateway")
    /\ last.polls = MaxAttempts
    /\ last.after = "deleting"
    /\ last.log = "was not fully deleted"

----------------------------------------------------------------------------
(* Properties of the outcome of a dispatch *)

\* delete_resource has reported success for a descriptor with a registered
\* handler: it returned nothing
ReportedSuccess ==
    /\ last.phase \in {"main", "retry"}
    /\ last.via = "handler"
    /\ last.exc = "none"
    /\ last.ret = None

\* C31: delete_resource returns nothing for a descriptor with a registered
\* handler only if the resource is gone (a declined descriptor is not
\* dispatched); a descriptor whose deletion the provider rejected is
\* enqueued again, and at the end of the run every dispatched descriptor is
\* deleted or in the report of the permanently failed.
C31_SuccessOnlyIfGone ==
    /\ ReportedSuccess => StatusOf(last.resource) = "Gone"
    /\ pc = "done" =>
          \A k \in 1..Len(resources) :
              hist[k].n >= 1 =>
                  \/ dist_status[k] = "Gone"
                  \/ InList(resources[k], report)

\* the same for the handler that re-raises the provider's error
LaunchTemplateSuccessOnlyIfGone ==
    /\ (ReportedSuccess /\ last.resource.resource_type = "launchtemplate") =>
          StatusOf(last.resource) = "Gone"
    /\ pc = "done" =>
          \A k \in 1..Len(resources) :
              (hist[k].n >= 1 /\ resources[k].resource_type = "launchtemplate") =>
                  \/ dist_status[k] = "Gone"
                  \/ InList(resources[k], report)

\* a gateway or endpoint whose deletion the provider rejected: dispatched
\* once, still there at the end of the run and in no report
RejectedAndLost(type) ==
    /\ pc = "done"
    /\ report = <<>>
    /\ \E k \in 1..Len(resources) :
          /\ resources[k].resource_type = type
          /\ hist[k].n = 1
          /\ dist_status[k] = "Present"

InternetGatewayRejectedAndLost == RejectedAndLost("internetgateway")
NatGatewayRejectedAndLost == RejectedAndLost("natgateway")
VpcEndpointRejectedAndLost == RejectedAndLost("vpcendpoint")

----------------------------------------------------------------------------
(* Properties of the delay between rounds *)

\* C32: retry_failed_deletions sleeps only between two consecutive rounds:
\* in round k it has slept k - 1 times, and once it has returned it has slept
\* once less than it has made rounds; no sleep follows the last round or a
\* round that leaves the retry set empty.
C32_SleepOnlyBetweenRounds ==
    slept = IF attempt >= 1 THEN attempt - 1 ELSE 0

\* no sleep follows a round that leaves the retry set empty, and every round
\* but the first follows a sleep
NoSleepAfterEmptyRound ==
    /\ pc = "retry_round" => slept = attempt - 1
    /\ (pc = "done" /\ report = <<>>) =>
          slept = IF attempt >= 1 THEN attempt - 1 ELSE 0

\* the last round has left a descriptor in the retry set: the function has
\* slept after it, and then printed the report
SleptAfterLastRound ==
    /\ pc = "done"
    /\ attempt = max_retries
    /\ report # <<>>
    /\ slept = max_retries

----------------------------------------------------------------------------
(* Properties of the elements of the retry set *)

\* C33: at the start of every retry round, and so throughout it, every
\* element of the retry set is a resource descriptor, never a nested list or
\* a bare string, whatever the handlers returned in the main pass and in
\* earlier rounds.
C33_RetrySetOfDescriptors ==
    pc = "retry_round" =>
        \A k \in 1..Len(other_resources) : IsDict(other_resources[k])

\* the set main() hands to the first round holds descriptors only: main()
\* extends with a returned list and appends anything else
FirstRoundOfDescriptors ==
    (pc = "retry_round" /\ attempt = 1) =>
        \A k \in 1..Len(other_resources) : IsDict(other_resources[k])

\* round 2 begins with the list a handler returned in round 1 as an element
NestedListAtRoundStart ==
    /\ pc = "retry_round"
    /\ attempt = 2
    /\ ridx = 1
    /\ \E k \in 1..Len(other_resources) : ~IsDict(other_resources[k])

----------------------------------------------------------------------------
(* Properties of delete_vpc *)

\* the groups, of those found, on which a delete call was made before the
\* k-th call
GroupsTriedBefore(k) ==
    { last.calls[j].arg :
        j \in { i \in 1..(k - 1) :
                  last.calls[i].op = "delete_security_group" } }

\* the groups found whose deletion the provider refused with an error other
\* than not-found, in the order found
GroupsRefused ==
    LET Refused(sg) ==
            /\ sg.name # "default"
            /\ last.answers.sg[sg.id] \notin {"ok", "InvalidGroup.NotFound"}
    IN  SelectSeq(last.before, Refused)

\* C34: delete_vpc never issues a delete for the security group named
\* 'default', has attempted the deletion of every other security group of the
\* VPC before it issues the delete_vpc call, and when it returns, returns as
\* retry descriptors exactly the groups whose deletion failed with an error
\* other than not-found.
C34_GroupsBeforeVpc ==
    Called("delete_vpc") =>
        LET k == FirstCall(last.calls, "delete_vpc")
        IN  /\ \A i \in 1..Len(last.before) :
                  last.before[i].name = "default" =>
                      last.before[i].id
                          \notin GroupsTriedBefore(Len(last.calls) + 1)
            /\ k # 0 =>
                 /\ k = Len(last.calls)
                 /\ \A i \in 1..Len(last.before) :
                       last.before[i].name # "default" =>
                           last.before[i].id \in GroupsTriedBefore(k)
            /\ last.exc = "none" =>
                 /\ k # 0
                 /\ Len(Items(last.ret)) = Len(GroupsRefused)
                 /\ \A j \in 1..Len(GroupsRefused) :
                       /\ Items(last.ret)[j].resource_type = "security_group"
                       /\ Items(last.ret)[j].resource_id = GroupsRefused[j].id

\* a VPC with the default group and one more, whose deletion is refused: one
\* delete call for that group, then the VPC's, and the group is returned
C34_Witness ==
    /\ Called("delete_vpc")
    /\ Len(last.before) = 2
    /\ \E i \in 1..2 : last.before[i].name = "default"
    /\ Len(GroupsRefused) = 1
    /\ Ops(last.calls) = <<"describe_security_groups", "delete_security_group",
                           "delete_vpc">>
    /\ last.exc = "none"
    /\ Len(Items(last.ret)) = 1
    /\ ~last.after.exists

\* the delete_vpc call is refused after a group's deletion was: the handler
\* raises and returns no descriptor
VpcRefusedAfterGroupRefused ==
    /\ Called("delete_vpc")
    /\ GroupsRefused # <<>>
    /\ last.exc = "ClientError"
    /\ last.ret = None

----------------------------------------------------------------------------
(* Properties of delete_elastic_load_balancer *)

DeleteOps == {"delete_listener", "delete_target_group", "delete_load_balancer"}

\* the delete calls of the latest handler call, in the order made
DeleteCalls ==
    LET IsDelete(c) == c.op \in DeleteOps
    IN  SelectSeq(last.calls, IsDelete)

\* the target groups that the listeners found forward to
ForwardedTo ==
    { last.before.listeners[k].forward : k \in 1..Len(last.before.listeners) }
        \ {0}

\* one of them is attached to a second load balancer
SharedTargetGroup == \E tg \in ForwardedTo : last.before.balancers[tg] > 1

\* the rank of a delete call: listeners, then target groups, then the balancer
DeleteRank(c) ==
    IF c.op = "delete_listener" THEN 1
    ELSE IF c.op = "delete_target_group" THEN 2 ELSE 3

\* C35: delete_elastic_load_balancer issues no delete call (listener, target
\* group or load balancer) when one of its target groups is attached to
\* another load balancer or when the operator does not confirm; otherwise its
\* delete calls go listeners first, then target groups, then the load
\* balancer, and when it returns it has made one for every listener, one for
\* every target group and one for the load balancer.
C35_AllOrNothingInOrder ==
    Called("delete_elastic_load_balancer") =>
        /\ (SharedTargetGroup \/ last.answers.prompt # "y") =>
              /\ DeleteCalls = <<>>
              /\ last.after.exists
              /\ last.after.listeners = Len(last.before.listeners)
        /\ \A i, j \in 1..Len(DeleteCalls) :
              i < j => DeleteRank(DeleteCalls[i]) <= DeleteRank(DeleteCalls[j])
        /\ (last.exc = "none" /\ ~SharedTargetGroup
               /\ last.answers.prompt = "y") =>
              /\ { c.arg : c \in { DeleteCalls[i] : i \in 1..Len(DeleteCalls) }
                              \cap [op : {"delete_listener"},
                                    arg : 1..MaxListeners] }
                   = 1..Len(last.before.listeners)
              /\ { c.arg : c \in { DeleteCalls[i] : i \in 1..Len(DeleteCalls) }
                              \cap [op : {"delete_target_group"},
                                    arg : TargetGroupArns] }
                   = ForwardedTo
              /\ DeleteCalls[Len(DeleteCalls)].op = "delete_load_balancer"
              /\ Len(DeleteCalls) = Len(last.before.listeners)
                                      + Cardinality(ForwardedTo) + 1

\* two listeners that forward to two target groups of this load balancer
\* only, and a yes: five delete calls in order, and the load balancer is gone
C35_Witness ==
    /\ Called("delete_elastic_load_balancer")
    /\ ~SharedTargetGroup
    /\ last.answers.prompt = "y"
    /\ Ops(DeleteCalls) = <<"delete_listener", "delete_listener",
                            "delete_target_group", "delete_target_group",
                            "delete_load_balancer">>
    /\ last.exc = "none"
    /\ ~last.after.exists

\* a target group is shared and the operator would have said yes: nothing
\* is deleted
SharedTargetGroupLeftAlone ==
    /\ Called("delete_elastic_load_balancer")
    /\ SharedTargetGroup
    /\ last.answers.prompt = "y"
    /\ last.before.listeners # <<>>
    /\ DeleteCalls = <<>>
    /\ last.exc = "none"

\* the operator does not confirm: nothing is deleted
ElbNotConfirmedLeftAlone ==
    /\ Called("delete_elastic_load_balancer")
    /\ ~SharedTargetGroup
    /\ last.answers.prompt # "y"
    /\ last.before.listeners # <<>>
    /\ DeleteCalls = <<>>
    /\ last.exc = "none"

----------------------------------------------------------------------------
(* Properties of delete_dynamodb_table and create_dynamodb_table_backup *)

\* the backup that delete_dynamodb_table offered was accepted and every
\* attempt to create it failed
BackupCouldNotBeCreated ==
    /\ last.answers.backup.backup = "y"
    /\ last.answers.backup.fails >= backup_max_retries

\* C36: delete_dynamodb_table never issues the delete_table call for a table
\* with deletion protection unless the operator answered 'yes' to disabling
\* it, nor for a non-empty table unless the operator answered 'yes' to
\* deleting its items, and 'yes' again if the offered backup could not be
\* created.
C36_DeleteTableOnlyConfirmed ==
    (Called("delete_dynamodb_table")
        /\ FirstCall(last.calls, "delete_table") # 0) =>
        /\ last.before.deletion_protection => last.answers.disable = "yes"
        /\ last.before.nonempty =>
              /\ last.answers.confirm = "yes"
              /\ BackupCouldNotBeCreated => last.answers.still = "yes"

\* a protected, non-empty table, three times yes and a backup that failed
\* five times: the table is deleted
C36_Witness ==
    /\ Called("delete_dynamodb_table")
    /\ last.before.deletion_protection
    /\ last.before.nonempty
    /\ BackupCouldNotBeCreated
    /\ last.answers.disable = "yes"
    /\ last.answers.confirm = "yes"
    /\ last.answers.still = "yes"
    /\ FirstCall(last.calls, "delete_table") = Len(last.calls)
    /\ ~last.after.table.exists

\* a protected table and an answer other than yes: no update_table, no
\* delete_table
ProtectedTableLeftAlone ==
    /\ Called("delete_dynamodb_table")
    /\ last.before.deletion_protection
    /\ last.answers.disable = "y"
    /\ Ops(last.calls) = <<"describe_table">>
    /\ last.after.table = last.before

\* 2 to the power k
RECURSIVE TwoToThe(_)
TwoToThe(k) == IF k = 0 THEN 1 ELSE 2 * TwoToThe(k - 1)

\* C37: create_dynamodb_table_backup makes at most 5 create_backup attempts,
\* sleeps between failed attempts with exponential backoff starting at 1
\* second (1, 2, 4, 8), returns False as soon as an attempt succeeds, or the
\* table is not found, or the operator declines the backup, and returns True
\* only when all 5 attempts have failed.
C37_BackupAttemptsAndBackoff ==
    Called("create_dynamodb_table_backup") =>
        /\ Len(last.calls) <= 5
        /\ \A k \in 1..Len(last.after) :
              /\ k < 5
              /\ last.after[k] = TwoToThe(k - 1)
        /\ last.answers.backup # "y" =>
              (last.ret = PyBool(FALSE) /\ last.calls = <<>>)
        /\ (last.answers.backup = "y" /\ last.answers.fails < 5) =>
              /\ last.ret = PyBool(FALSE)
              /\ Len(last.calls) = last.answers.fails + 1
        /\ last.ret = PyBool(TRUE) =>
              (Len(last.calls) = 5 /\ last.answers.fails >= 5)

\* the attempts and the result are as claimed: at most 5 attempts, False at
\* the first attempt that does not fail or when the backup is declined, True
\* exactly when 5 attempts have failed
BackupAttemptsAndResult ==
    Called("create_dynamodb_table_backup") =>
        /\ Len(last.calls) <= 5
        /\ last.answers.backup # "y" =>
              (last.ret = PyBool(FALSE) /\ last.calls = <<>>)
        /\ (last.answers.backup = "y" /\ last.answers.fails < 5) =>
              /\ last.ret = PyBool(FALSE)
              /\ Len(last.calls) = last.answers.fails + 1
        /\ last.ret = PyBool(TRUE) <=>
              (last.answers.backup = "y" /\ last.answers.fails >= 5)
        /\ last.ret = PyBool(TRUE) => Len(last.calls) = 5

\* the delays grow by one second: 1, 2, 3 after three failed attempts
LinearBackoff ==
    /\ Called("create_dynamodb_table_backup")
    /\ last.answers.fails = 3
    /\ last.after = <<1, 2, 3>>
    /\ last.ret = PyBool(FALSE)

\* every attempt has failed: the fifth is followed by a sleep too, of 5
\* seconds, before True is returned
SleptAfterLastAttempt ==
    /\ Called("create_dynamodb_table_backup")
    /\ Len(last.calls) = 5
    /\ last.after = <<1, 2, 3, 4, 5>>
    /\ last.ret = PyBool(TRUE)

====
